---- MODULE Spec2Model ----
(***************************************************************************)
(* A model of cargo-csc: the CSpell trie decoder (src/cspell/trie/spec.rs), *)
(* the on-disk dictionary cache (src/dictionary.rs) and the check pipeline  *)
(* (src/main.rs).  Each part has its own specification over its own         *)
(* variables: SpecDecoder, SpecCache, SpecPipeline.                          *)
(***************************************************************************)
EXTENDS Integers, Sequences, FiniteSets, TLC

VARIABLES
    \* ---- CSpell trie decoder (TrieBuilder, ParseState, parse_body) ----
    nodes,        \* TrieBuilder.nodes: the arena, node id i is nodes[i + 1]
    pos,          \* TrieBuilder.pos: the current path, a sequence of node ids
    pos_string,   \* TrieBuilder.pos_string
    state,        \* ParseState: "InWord", "Escape", "Remove", "AbsoluteReference"
    chars,        \* the chars of ParseState::AbsoluteReference
    fault,        \* "none", or the panic that aborted decoding
    header_base,  \* Header.base
    consumed,     \* the body characters parse_body has taken so far
    rest,         \* the body characters still to come (a fixed body)
    free,         \* TRUE when the body is chosen character by character
    output,       \* the result of parse_body: "pending", or a record
    \* ---- the dictionary cache (Dictionary, DictCacheStore) ----
    source,       \* the dictionary files: path -> the rules its lines load to
    store,        \* cache.json as DictCacheStore reads it: path_hash -> hash
    artifact,     \* <cache_dir>/<path_hash>.bin per path: a file, or NoFile
    cpc,          \* per invocation: where it is in Dictionary::compile_inner
    clocal,       \* per invocation: the locals of compile_inner and its callees
    edits,        \* how often a dictionary file has been rewritten
    runs,         \* compiles started, over all invocations
    cleared,      \* the files `cache clear` has removed
    \* ---- the check pipeline (check, handle_file) ----
    numFiles,     \* the files under the directory that match the glob
    dictPc,       \* dictionary_loader: "running", "ok" or "err"
    compiles,     \* per dictionary: whether dict.compile() succeeds
    dictNext,     \* dictionary_loader: the next dictionary of the loop
    dictionaries, \* context.dictionaries: the names that have a word-index
    loaderPc,     \* file_loader: "walking" or "done" (file_sender dropped)
    sent,         \* files file_loader has sent on the file channel
    taken,        \* files the workers have received from the file channel
    mainPc,       \* check(): "join", "spawn", "drop", "sink", "join_threads", "done", "failed"
    wpc,          \* per worker thread: where it is in handle_file
    resQueue,     \* results waiting in the result channel
    counter,      \* check(): the results the sink loop has received
    base_dictionaries, \* settings.dictionaries and args.extra_dictionaries
    wfile,        \* per worker: the extension of the file it handles
    wtrie,        \* per worker: what get_multi_trie returned for that file
    wpath,        \* per worker: the file it handles, by its place in the walk
    results,      \* the result channel: the files of the results it holds
    received,     \* the files of the results the sink loop has received
    mainSender,   \* check(): TRUE while the main task holds its result_sender
    \* ---- the header of a CSpell trie file (parse_header, parse_trie) ----
    input,          \* the lines of the file, each a sequence of characters
    header_counter, \* parse_header: counter
    parsed_version, \* parse_header: version, None or the text after TrieXv
    parsed_base,    \* parse_header: base, None or the parsed u8
    hpc,            \* "loop", "finish", "parsed", "done", "err" or "panic"
    parsed,         \* the result of parse_trie: "pending", or a record
    \* ---- compiling a word-index (load_dictionary_line, Trie::from) ----
    dict_lines,   \* the lines of a dictionary file, each a sequence of characters
    dict_rules,   \* the rule list the word-index is compiled from
    index,        \* the compiled Trie
    ipc,          \* "load", "compile" or "done"
    \* ---- the multi-index (MultiTrie) ----
    members,      \* MultiTrie.inner: the member word-indexes, in order
    token,        \* the word handed to handle_identifier
    found,        \* the results of MultiTrie::contains for the words asked
    suspicious,   \* the result of handle_identifier: None or Some(part)
    mpc,          \* "contains", "identifier" or "done"
    \* ---- the typos of a syntax node (handle_node, Typo::from_node) ----
    leaf,         \* the node: is_named, start_position, start_byte and its text
    typos,        \* the Vec<Typo> handle_node returns
    tpc           \* "node" or "done"

decoderVars == <<nodes, pos, pos_string, state, chars, fault, header_base,
                 consumed, rest, free, output>>

cacheVars == <<source, store, artifact, cpc, clocal, edits, runs, cleared>>

dictVars == <<compiles, dictNext, dictionaries>>

setVars == <<base_dictionaries, wfile, wtrie>>

chanVars == <<wpath, results, received, mainSender>>

pipelineVars == <<numFiles, dictPc, loaderPc, sent, taken, mainPc, wpc,
                  resQueue, counter, dictVars, setVars, chanVars>>

headerVars == <<input, header_counter, parsed_version, parsed_base, hpc,
                parsed>>

indexVars == <<dict_lines, dict_rules, index, ipc>>

multiVars == <<members, token, found, suspicious, mpc>>

typoVars == <<leaf, typos, tpc>>

vars == <<decoderVars, cacheVars, pipelineVars, headerVars, indexVars,
          multiVars, typoVars>>

\* what the actions of one part leave alone: the variables of the others
decoderRest ==
    <<cacheVars, pipelineVars, headerVars, indexVars, multiVars,
      typoVars>>

cacheRest ==
    <<decoderVars, pipelineVars, headerVars, indexVars, multiVars,
      typoVars>>

pipelineRest ==
    <<decoderVars, cacheVars, headerVars, indexVars, multiVars,
      typoVars>>

headerRest ==
    <<decoderVars, cacheVars, pipelineVars, indexVars, multiVars,
      typoVars>>

multiRest ==
    <<decoderVars, cacheVars, pipelineVars, headerVars, indexVars,
      typoVars>>

typoRest ==
    <<decoderVars, cacheVars, pipelineVars, headerVars, indexVars, multiVars>>

indexRest ==
    <<decoderVars, cacheVars, pipelineVars, headerVars, multiVars,
      typoVars>>

(***************************************************************************)
(* Bounds of the model.                                                    *)
(***************************************************************************)
\* longest body that is chosen character by character
MaxBody == 4

\* rewrites of dictionary files during a run of the cache model
MaxEdits == 1

\* compiles the invocations start, all together
MaxRuns == 2

\* most files of a small run of the pipeline
MaxFiles == 3

\* most lines of a CSpell trie file
MaxLines == 4

\* most rules of a rule list, and most lines of a dictionary file
MaxRules == 3

\* most members of a multi-index
MaxMembers == 2

\* most pieces a token is put together from
MaxPieces == 3

\* largest start row and start column of a node
MaxPosition == 2

\* characters a free body is drawn from
Alphabet == {"a", "$", "<", "\\", "#", ";", "0", "1", "2", "3"}

(***************************************************************************)
(* Helpers over sequences.                                                 *)
(***************************************************************************)
Last(s) == s[Len(s)]

Front(s, k) == SubSeq(s, 1, Len(s) - k)

\* String::pop on a possibly empty string
PopStr(s) == IF Len(s) = 0 THEN s ELSE Front(s, 1)

RECURSIVE PopStrN(_, _)
PopStrN(s, k) == IF k = 0 THEN s ELSE PopStrN(PopStr(s), k - 1)

(***************************************************************************)
(* TrieNode and the arena.                                                 *)
(***************************************************************************)
\* TrieNode::new / TrieNode::new_root: children is a set of <<char, node id>>
TrieNodeNew == [eow |-> FALSE, children |-> {}]

NodeAt(ns, i) == ns[i + 1]

HasChild(n, c) == \E e \in n.children : e[1] = c

ChildOf(n, c) == (CHOOSE e \in n.children : e[1] = c)[2]

\* HashMap::insert: replaces the entry under c
InsertChild(children, c, i) == {e \in children : e[1] # c} \cup {<<c, i>>}

\* TrieBuilder::new
TrieBuilderNew ==
    [nodes |-> <<TrieNodeNew>>, pos |-> <<0>>, pos_string |-> <<>>,
     state |-> "InWord", chars |-> <<>>, fault |-> "none"]

Panic(m, why) == [m EXCEPT !.fault = why]

(***************************************************************************)
(* Characters: char::is_numeric, char::to_digit and the order of chars.    *)
(***************************************************************************)
\* the characters of the model in increasing code point order
CharTable ==
    <<"\n", "\r", "#", "$", "'", "-", "0", "1", "2", "3", "4", "5", "6", "7", "8",
      "9", ";", "<", "=", "A", "B", "C", "D", "E", "F", "G", "H", "I", "J",
      "K", "L", "M", "N", "O", "P", "Q", "R", "S", "T", "U", "V", "W", "X",
      "Y", "Z", "\\", "_", "a", "b", "c", "d", "e", "f", "g", "h", "i", "j",
      "k", "l", "m", "n", "o", "p", "q", "r", "s", "t", "u", "v", "w", "x",
      "y", "z">>

CharSet == {CharTable[i] : i \in 1..Len(CharTable)}

CharCode(c) == CHOOSE i \in 1..Len(CharTable) : CharTable[i] = c

DecimalDigits == <<"0", "1", "2", "3", "4", "5", "6", "7", "8", "9">>

RadixDigits ==
    DecimalDigits \o
    <<"a", "b", "c", "d", "e", "f", "g", "h", "i", "j", "k", "l", "m", "n",
      "o", "p", "q", "r", "s", "t", "u", "v", "w", "x", "y", "z">>

\* char::is_numeric on the characters of the model
is_numeric(c) == \E i \in 1..Len(DecimalDigits) : DecimalDigits[i] = c

\* char::to_digit(radix): the digit's value, or -1 for None
to_digit(c, radix) ==
    IF \E i \in 1..Len(RadixDigits) : RadixDigits[i] = c /\ i - 1 < radix
    THEN (CHOOSE i \in 1..Len(RadixDigits) : RadixDigits[i] = c) - 1
    ELSE -1

\* u32::from_str_radix: the value, or -1 for Err (empty, or an invalid digit).
\* Bodies of the model are too short for a reference to overflow u32.
RECURSIVE from_str_radix_acc(_, _, _)
from_str_radix_acc(s, radix, acc) ==
    IF Len(s) = 0 THEN acc
    ELSE IF to_digit(Head(s), radix) < 0 THEN -1
    ELSE from_str_radix_acc(Tail(s), radix, acc * radix + to_digit(Head(s), radix))

from_str_radix(s, radix) ==
    IF Len(s) = 0 THEN -1 ELSE from_str_radix_acc(s, radix, 0)

(***************************************************************************)
(* TrieBuilder: a machine m is the record of nodes, pos, pos_string, the   *)
(* parse state with its chars, and the panic that stopped it.              *)
(***************************************************************************)
\* the mutant of add_char: a new node is allocated and linked whether the
\* parent has a child under c or not
add_char_always_new(m, c) ==
    IF Len(m.pos) = 0 THEN Panic(m, "unreachable")
    ELSE LET parent == Last(m.pos)
             new_node == Len(m.nodes) IN
         [m EXCEPT !.nodes = Append([@ EXCEPT ![parent + 1].children =
                                         InsertChild(@, c, new_node)],
                                    TrieNodeNew),
                   !.pos = Append(@, new_node)]

\* TrieBuilder::add_char
add_char(m, c) ==
    IF Len(m.pos) = 0 THEN Panic(m, "unreachable")
    ELSE LET parent == Last(m.pos) IN
         IF HasChild(NodeAt(m.nodes, parent), c)
         THEN [m EXCEPT !.pos = Append(@, ChildOf(NodeAt(m.nodes, parent), c)),
                        !.pos_string = Append(@, c)]
         ELSE LET new_node == Len(m.nodes) IN
              [m EXCEPT !.nodes = Append([@ EXCEPT ![parent + 1].children =
                                              InsertChild(@, c, new_node)],
                                         TrieNodeNew),
                        !.pos = Append(@, new_node)]

\* TrieBuilder::jump_to: re-links the edge of pos[len - 2] keyed by the last
\* char of pos_string to nodes[idx]; pos is left as it is
jump_to(m, idx) ==
    IF Len(m.pos) < 2 THEN Panic(m, "jump_to: pos has no parent")
    ELSE IF Len(m.pos_string) = 0 THEN Panic(m, "jump_to: pos_string is empty")
    ELSE IF idx >= Len(m.nodes) THEN Panic(m, "jump_to: nodes index out of bounds")
    ELSE LET p == m.pos[Len(m.pos) - 1] IN
         [m EXCEPT !.nodes[p + 1].children =
                       InsertChild(@, Last(m.pos_string), idx)]

\* cur.borrow_mut().eow = true on the last node of pos
mark_eow(m) ==
    IF Len(m.pos) = 0 THEN m
    ELSE [m EXCEPT !.nodes[Last(m.pos) + 1].eow = TRUE]

\* the mutant of pop_nodes: the check that pos is not empty is missing
pop_nodes_unchecked(m, count) ==
    IF count > Len(m.pos) THEN Panic(m, "No more nodes to pop")
    ELSE [m EXCEPT !.pos = Front(@, count),
                   !.pos_string = PopStrN(@, count)]

\* the pop loop of the Remove state: count pops, each followed by the
\* check that pos is not empty.  The pops made before the check fails are
\* kept: the panic finds pos empty.
pop_nodes(m, count) ==
    IF count >= Len(m.pos)
    THEN Panic([m EXCEPT !.pos = <<>>,
                         !.pos_string = PopStrN(@, Len(m.pos))],
               "No more nodes in path")
    ELSE [m EXCEPT !.pos = Front(@, count),
                   !.pos_string = PopStrN(@, count)]

\* the InWord arm of process_char
process_in_word(m, c) ==
    CASE c = "\\" -> [m EXCEPT !.state = "Escape"]
      [] c = "$" -> [mark_eow(m) EXCEPT !.state = "Remove"]
      [] c = "<" -> [m EXCEPT !.state = "Remove"]
      [] c = "#" -> [m EXCEPT !.state = "AbsoluteReference", !.chars = <<c>>]
      [] OTHER -> add_char(m, c)

\* the mutant of process_escape: the escaped character is dispatched
process_escape_dispatched(m, c) ==
    CASE c = "\\" -> [m EXCEPT !.state = "Escape"]
      [] c = "$" -> [mark_eow(m) EXCEPT !.state = "Remove"]
      [] c = "<" -> [m EXCEPT !.state = "Remove"]
      [] c = "#" -> [m EXCEPT !.state = "AbsoluteReference", !.chars = <<c>>]
      [] OTHER -> [add_char(m, c) EXCEPT !.state = "InWord"]

\* the Escape arm of process_char
process_escape(m, c) ==
    LET a == add_char(m, c) IN
    IF a.fault # "none" THEN a ELSE [a EXCEPT !.state = "InWord"]

\* the mutant of remove_dispatch: `$` after a pop does not mark the node
remove_dispatch_unmarked(m, c) ==
    CASE c = "\\" -> [m EXCEPT !.state = "Escape"]
      [] c = "$" -> [m EXCEPT !.state = "Remove"]
      [] c = "<" -> [m EXCEPT !.state = "Remove"]
      [] c = "#" -> [m EXCEPT !.state = "AbsoluteReference", !.chars = <<c>>]
      [] OTHER -> process_in_word([m EXCEPT !.state = "InWord"], c)

\* the match on a non-numeric c that follows the pop in the Remove arm
remove_dispatch(m, c) ==
    CASE c = "\\" -> [m EXCEPT !.state = "Escape"]
      [] c = "$" -> [mark_eow(m) EXCEPT !.state = "Remove"]
      [] c = "<" -> [m EXCEPT !.state = "Remove"]
      [] c = "#" -> [m EXCEPT !.state = "AbsoluteReference", !.chars = <<c>>]
      [] OTHER -> process_in_word([m EXCEPT !.state = "InWord"], c)

\* the largest integer TLC holds, 2^31 - 1
WrappedCount == 2147483647

\* `out - 1` on u32 in a build without overflow checks: 2^32 - (b - a) when
\* a < b.  For 0 - 1 that is 2^32 - 1, held here as WrappedCount: either
\* number is larger than every length pos can have, and the pop loop only
\* compares the count with that length.
wrapping_sub(a, b) == IF a >= b THEN a - b ELSE WrappedCount - (b - a) + 1

\* the mutant of process_remove: a digit d pops d elements
process_remove_off_by_one(m, c, overflow_checks) ==
    IF is_numeric(c)
    THEN LET out == to_digit(c, 10) IN
         IF out = 1 THEN Panic(m, "assert_ne!(out, 1)")
         ELSE IF out = 0 THEN Panic(m, "No more nodes in path")
              ELSE pop_nodes(m, out)
    ELSE LET p == pop_nodes(m, 1) IN
         IF p.fault # "none" THEN p ELSE remove_dispatch(p, c)

\* the Remove arm of process_char.  overflow_checks is the build's setting:
\* with it `out - 1` panics for out = 0, without it the count wraps to
\* 2^32 - 1 and the loop pops until pos is empty.
process_remove(m, c, overflow_checks) ==
    IF is_numeric(c)
    THEN LET out == to_digit(c, 10) IN
         IF out = 1 THEN Panic(m, "assert_ne!(out, 1)")
         ELSE IF out = 0
              THEN IF overflow_checks
                   THEN Panic(m, "attempt to subtract with overflow")
                   ELSE pop_nodes(m, wrapping_sub(out, 1))
              ELSE pop_nodes(m, out - 1)
    ELSE LET p == pop_nodes(m, 1) IN
         IF p.fault # "none" THEN p ELSE remove_dispatch(p, c)

\* the AbsoluteReference arm of process_char
process_reference(m, c, base) ==
    IF c = ";"
    THEN LET idx == from_str_radix(Tail(m.chars), base) IN
         IF idx < 0 THEN Panic(m, "Failed to convert number")
         ELSE IF idx < Len(m.nodes)
              THEN LET j == jump_to(m, idx + 1) IN
                   IF j.fault # "none" THEN j
                   ELSE [j EXCEPT !.state = "InWord", !.chars = <<>>]
              ELSE Panic(m, "Index out of bounds")
    ELSE [m EXCEPT !.chars = Append(@, c)]

\* TrieBuilder::process_char
process_char(m, c, base, overflow_checks) ==
    CASE m.state = "Escape" -> process_escape(m, c)
      [] m.state = "Remove" -> process_remove(m, c, overflow_checks)
      [] m.state = "AbsoluteReference" -> process_reference(m, c, base)
      [] OTHER -> process_in_word(m, c)

(***************************************************************************)
(* convert_trie: the depth-first walk that emits the words of the graph.   *)
(***************************************************************************)
Succ(ns, i) == {e[2] : e \in NodeAt(ns, i).children}

RECURSIVE ReachableFrom(_, _, _)
ReachableFrom(ns, frontier, seen) ==
    IF frontier \subseteq seen THEN seen
    ELSE ReachableFrom(ns, UNION {Succ(ns, i) : i \in frontier} \ (seen \cup frontier),
                       seen \cup frontier)

Reachable(ns, from) == ReachableFrom(ns, from, {})

\* a node the root reaches lies on a cycle of child edges
Cyclic(ns) == \E i \in Reachable(ns, {0}) : i \in Reachable(ns, Succ(ns, i))

\* the mutant of sorted_children: the greatest character comes first
RECURSIVE sorted_children_descending(_)
sorted_children_descending(children) ==
    IF children = {} THEN <<>>
    ELSE LET greatest == CHOOSE e \in children :
                             \A f \in children : CharCode(e[1]) >= CharCode(f[1])
         IN <<greatest>> \o sorted_children_descending(children \ {greatest})

\* sorted_children.sort_by(|a, b| a.0.cmp(b.0))
RECURSIVE sorted_children(_)
sorted_children(children) ==
    IF children = {} THEN <<>>
    ELSE LET least == CHOOSE e \in children :
                          \A f \in children : CharCode(e[1]) <= CharCode(f[1])
         IN <<least>> \o sorted_children(children \ {least})

\* rec_convert: the keys handed to builder.insert, in the order of the calls
RECURSIVE rec_convert(_, _, _)
RECURSIVE rec_convert_children(_, _, _)
rec_convert(ns, node, current) ==
    (IF NodeAt(ns, node).eow THEN <<current>> ELSE <<>>)
        \o rec_convert_children(ns, sorted_children(NodeAt(ns, node).children), current)

rec_convert_children(ns, kids, current) ==
    IF Len(kids) = 0 THEN <<>>
    ELSE rec_convert(ns, Head(kids)[2], Append(current, Head(kids)[1]))
             \o rec_convert_children(ns, Tail(kids), current)

Pending == [kind |-> "pending", words |-> <<>>]

\* convert_trie.  On a graph with a cycle the recursion passes MAX_DEPTH and
\* the assertion panics; without one no path is longer than the body.
convert_trie(ns) ==
    IF Cyclic(ns)
    THEN [kind |-> "panic", words |-> <<>>]
    ELSE [kind |-> "trie", words |-> rec_convert(ns, 0, <<>>)]

\* Trie::to_vec of the converted trie, as a set
WordSet(out) == {out.words[i] : i \in 1..Len(out.words)}

(***************************************************************************)
(* The bodies of the decoder's tests.                                      *)
(***************************************************************************)
\* test_parse_body_word_end: a$ b$ c$
BodyWordEnd ==
    <<"a", "$", "b", "$", "c", "$">>

\* test_parse_body_escape
BodyEscape ==
    <<"a", "\\", "$", "b", "$", "c", "$", "<", "2", "d", "e", "f", "$">>

\* test_parse_body_remove
BodyRemove ==
    <<"a", "$", "w", "o", "r", "d", "$", "<", "3", "n", "o", "$">>

\* test_parse_body_absolute_reference
BodyReference ==
    <<"a", "p", "p", "l", "e", "$", "<", "<", "<", "n", "$", "<", "b", "a",
      "n", "b", "#", "1", ";">>

\* test_parse_body_absolute_reference_3
BodyReference3 ==
    <<"\\", "'", "c", "a", "u", "s", "e", "$", "5", "s", "u", "p", "$",
      "3", "t", "i", "s", "$", "2", "w", "a", "#", "9", ";", "<", "4",
      "\\", "0", "t", "h", "$", "2", "$", "\\", "1", "s", "t", "$", "2",
      "$", "\\", "2", "n", "d", "$", "2", "$", "\\", "3", "r", "#", "g",
      ";">>

\* test_parse_body_absolute_reference_4
BodyReference4 ==
    <<"c", "$", "a", "#", "0", ";">>

\* test_parse_body_absolute_reference_5
BodyReference5 ==
    <<"a", "b", "$", "c", "#", "0", ";", "$">>

\* a path that is walked a second time and then linked to its own node
BodyRelink ==
    <<"a", "$", "a", "#", "1", ";", "$">>

\* a path that is walked a second time and then linked to its parent
BodyCycle ==
    <<"a", "b", "$", "<", "a", "b", "#", "0", ";">>

\* a path that is walked a second time and then linked to the subtree of
\* another word
BodyShared ==
    <<"a", "x", "$", "<", "b", "$", "b", "#", "0", ";">>

\* a body whose two lines are separated by a carriage return alone
BodyCarriageReturn ==
    <<"a", "$", "\r", "b", "$">>

\* a body whose lines still carry their line feeds
BodyLineFeed ==
    <<"a", "$", "\n", "b", "$", "\n">>

TestBodies ==
    {[base |-> 10, body |-> BodyWordEnd], [base |-> 32, body |-> BodyEscape],
     [base |-> 32, body |-> BodyRemove], [base |-> 32, body |-> BodyReference],
     [base |-> 32, body |-> BodyReference3], [base |-> 32, body |-> BodyReference4],
     [base |-> 32, body |-> BodyReference5], [base |-> 10, body |-> BodyRelink],
     [base |-> 10, body |-> BodyCycle], [base |-> 10, body |-> BodyLineFeed],
     [base |-> 10, body |-> BodyShared],
     [base |-> 10, body |-> BodyCarriageReturn]}

(***************************************************************************)
(* parse_body as a state machine: one step per body character.             *)
(***************************************************************************)
Machine ==
    [nodes |-> nodes, pos |-> pos, pos_string |-> pos_string,
     state |-> state, chars |-> chars, fault |-> fault]

\* the body of parse_body's inner loop for the character ch
parse_body_char(m, ch, base, overflow_checks) ==
    IF ch = "\n" THEN m ELSE process_char(m, ch, base, overflow_checks)

SetMachine(m) ==
    /\ nodes' = m.nodes
    /\ pos' = m.pos
    /\ pos_string' = m.pos_string
    /\ state' = m.state
    /\ chars' = m.chars
    /\ fault' = m.fault

DecoderInit ==
    /\ nodes = TrieBuilderNew.nodes
    /\ pos = TrieBuilderNew.pos
    /\ pos_string = TrieBuilderNew.pos_string
    /\ state = TrieBuilderNew.state
    /\ chars = TrieBuilderNew.chars
    /\ fault = TrieBuilderNew.fault
    /\ consumed = <<>>
    /\ output = Pending
    /\ \/ /\ free = TRUE
          /\ rest = <<>>
          /\ header_base \in {10, 32}
       \/ /\ free = FALSE
          /\ \E t \in TestBodies : rest = t.body /\ header_base = t.base

\* parse_body takes the next character of a body chosen as the run goes
DecodeFreeChar ==
    /\ free /\ fault = "none" /\ output = Pending
    /\ Len(consumed) < MaxBody
    /\ \E ch \in Alphabet, overflow_checks \in BOOLEAN :
          /\ SetMachine(parse_body_char(Machine, ch, header_base, overflow_checks))
          /\ consumed' = Append(consumed, ch)
    /\ UNCHANGED <<header_base, rest, free, output>>
    /\ UNCHANGED decoderRest

\* parse_body takes the next character of a fixed body
DecodeTestChar ==
    /\ ~free /\ fault = "none" /\ output = Pending
    /\ Len(rest) > 0
    /\ \E overflow_checks \in BOOLEAN :
          SetMachine(parse_body_char(Machine, Head(rest), header_base, overflow_checks))
    /\ consumed' = Append(consumed, Head(rest))
    /\ rest' = Tail(rest)
    /\ UNCHANGED <<header_base, free, output>>
    /\ UNCHANGED decoderRest

\* the body is exhausted: parse_body converts the graph under nodes[0]
DecodeFinish ==
    /\ fault = "none" /\ output = Pending
    /\ free \/ Len(rest) = 0
    /\ output' = convert_trie(nodes)
    /\ UNCHANGED <<nodes, pos, pos_string, state, chars, fault, header_base,
                   consumed, rest, free>>
    /\ UNCHANGED decoderRest

DecoderNext == DecodeFreeChar \/ DecodeTestChar \/ DecodeFinish

(***************************************************************************)
(* Rules and the word-index: Rule, TrieOptions, Trie::from(&[Rule]).       *)
(***************************************************************************)
Allow(w) == [kind |-> "Allow", word |-> w]

Disallow(w) == [kind |-> "Disallow", word |-> w]

CommandCache(b) == [kind |-> "Command", word |-> IF b THEN "cache:true" ELSE "cache:false"]

CommandCaseSensitive == [kind |-> "Command", word |-> "case-sensitive"]

\* TrieOptions::default
TrieOptionsDefault == [cache |-> TRUE, case_sensitive |-> FALSE]

\* Trie::new: entries holds <<word, disallow>> for every node with data
TrieNew == [entries |-> {}, options |-> TrieOptionsDefault]

\* the mutant of trie_insert: a word once disallowed stays disallowed
trie_insert_disallow_wins(t, w, disallow) ==
    [t EXCEPT !.entries =
        {e \in @ : e[1] # w} \cup {<<w, disallow \/ <<w, TRUE>> \in @>>}]

\* Trie::insert: the data of the word's node is replaced
trie_insert(t, w, disallow) ==
    [t EXCEPT !.entries = {e \in @ : e[1] # w} \cup {<<w, disallow>>}]

\* TrieOptions::add_command
add_command(o, r) ==
    CASE r.word = "case-sensitive" -> [o EXCEPT !.case_sensitive = TRUE]
      [] r.word = "cache:true" -> [o EXCEPT !.cache = TRUE]
      [] OTHER -> [o EXCEPT !.cache = FALSE]

\* impl From<&[Rule]> for Trie
RECURSIVE trie_from_acc(_, _)
trie_from_acc(t, rules) ==
    IF Len(rules) = 0 THEN t
    ELSE LET r == Head(rules) IN
         trie_from_acc(
             CASE r.kind = "Allow" -> trie_insert(t, r.word, FALSE)
               [] r.kind = "Disallow" -> trie_insert(t, r.word, TRUE)
               [] r.kind = "Command" -> [t EXCEPT !.options = add_command(@, r)]
               [] OTHER -> t,
             Tail(rules))

trie_from(rules) == trie_from_acc(TrieNew, rules)

(***************************************************************************)
(* The files of the cache.                                                 *)
(***************************************************************************)
\* the File dictionaries of the model, named by their paths
Dicts == {"en.txt", "rust.txt"}

\* the invocations of the program that share the cache directory
Invocations == {"i1", "i2"}

\* what a dictionary file may hold: the rules its lines load to
SourceTexts ==
    {<<Allow("foo")>>, <<Allow("foo"), Disallow("bar")>>,
     <<CommandCache(FALSE), Allow("foo")>>}

\* blake3::hash(path): injective on the paths of the model
path_hash(d) == <<"path", d>>

\* filesystem::get_path_hash of a file: the hash of its bytes, injective on
\* the texts of the model
get_path_hash(text) == <<"content", text>>

NoFile == [kind |-> "none"]

\* the mutant of trie_dump: the entries of disallowed words are not written
trie_dump_allowed_only(t) ==
    [kind |-> "bin", entries |-> {e \in t.entries : ~e[2]}, options |-> t.options]

\* Trie::dump_to_file: the bytes hold the root and the options
trie_dump(t) == [kind |-> "bin", entries |-> t.entries, options |-> t.options]

\* Trie::load_from_file: the trie, or an error for a file that is not there
trie_load(f) ==
    IF f.kind = "bin"
    THEN [ok |-> TRUE, trie |-> [entries |-> f.entries, options |-> f.options]]
    ELSE [ok |-> FALSE, trie |-> TrieNew]

\* DictCacheStore::new: no entries; a store is a set of <<path_hash, hash>>
DictCacheStoreNew == {}

\* cache_hash_store.0.get(&path_hash): the hash, or NoHash
NoHash == <<"none">>

store_get(st, ph) ==
    IF \E e \in st : e[1] = ph THEN (CHOOSE e \in st : e[1] = ph)[2] ELSE NoHash

\* the mutant of store_insert: an entry that is there is kept as it is, and a
\* new one replaces the rest of the store
store_insert_fresh(st, ph, h) ==
    IF \E e \in st : e[1] = ph THEN {e \in st : e[1] # ph} ELSE {<<ph, h>>}

\* cache_hash_store.0.insert(path_hash, fs_hash)
store_insert(st, ph, h) == {e \in st : e[1] # ph} \cup {<<ph, h>>}

(***************************************************************************)
(* Dictionary::compile_inner for a File dictionary, one file-system access *)
(* per step, run by every invocation.                                      *)
(***************************************************************************)
NoResult == [kind |-> "none", trie |-> TrieNew]

LocalsNew ==
    [path |-> "", load_fs_hash |-> NoHash, save_fs_hash |-> NoHash,
     entry |-> NoHash, exists |-> FALSE,
     read |-> FALSE, rules |-> <<>>, trie |-> TrieNew, loaded |-> {},
     result |-> NoResult]

CacheInit ==
    /\ source \in [Dicts -> {<<Allow("foo")>>}]
    /\ store = DictCacheStoreNew
    /\ artifact = [d \in Dicts |-> NoFile]
    /\ cpc = [i \in Invocations |-> "idle"]
    /\ clocal = [i \in Invocations |-> LocalsNew]
    /\ edits = 0
    /\ runs = 0
    /\ cleared = {}

\* the values the cache variables keep while another part of the model runs
CacheQuiet ==
    /\ source = [d \in Dicts |-> <<>>]
    /\ store = DictCacheStoreNew
    /\ artifact = [d \in Dicts |-> NoFile]
    /\ cpc = [i \in Invocations |-> "idle"]
    /\ clocal = [i \in Invocations |-> LocalsNew]
    /\ edits = 0
    /\ runs = 0
    /\ cleared = {}

Goto(i, label) == cpc' = [cpc EXCEPT ![i] = label]

\* the mutant of cache_hit_hash: any stored entry counts as a hit
cache_hit_hash_any(entry, fs_hash) == entry # NoHash

\* load_from_cache_inner: `if let Some(hash) = .. get(&path_hash)` and
\* `if hash == &fs_hash`
cache_hit_hash(entry, fs_hash) == entry # NoHash /\ entry = fs_hash

\* compile(): an invocation starts to compile the File dictionary d
CompileBegin(i, d) ==
    /\ cpc[i] \in {"idle", "done"}
    /\ runs < MaxRuns
    /\ runs' = runs + 1
    /\ clocal' = [clocal EXCEPT ![i] = [LocalsNew EXCEPT !.path = d]]
    /\ Goto(i, "load_hash")
    /\ UNCHANGED <<source, store, artifact, edits, cleared>>
    /\ UNCHANGED cacheRest

\* load_from_cache_inner: fs_hash = get_path_hash(path)
LoadHash(i) ==
    /\ cpc[i] = "load_hash"
    /\ clocal' = [clocal EXCEPT ![i].load_fs_hash = get_path_hash(source[clocal[i].path])]
    /\ Goto(i, "load_store")
    /\ UNCHANGED <<source, store, artifact, edits, runs, cleared>>
    /\ UNCHANGED cacheRest

\* load_from_cache_inner: the store is read and the entry compared
LoadStore(i) ==
    /\ cpc[i] = "load_store"
    /\ LET entry == store_get(store, path_hash(clocal[i].path)) IN
       /\ clocal' = [clocal EXCEPT ![i].entry = entry]
       /\ IF cache_hit_hash(entry, clocal[i].load_fs_hash)
          THEN Goto(i, "load_exists")
          ELSE Goto(i, "read_source")
    /\ UNCHANGED <<source, store, artifact, edits, runs, cleared>>
    /\ UNCHANGED cacheRest

\* load_from_cache_inner: cache_path.exists()
LoadExists(i) ==
    /\ cpc[i] = "load_exists"
    /\ LET exists == artifact[clocal[i].path] # NoFile IN
       /\ clocal' = [clocal EXCEPT ![i].exists = exists]
       /\ IF exists THEN Goto(i, "load_artifact") ELSE Goto(i, "read_source")
    /\ UNCHANGED <<source, store, artifact, edits, runs, cleared>>
    /\ UNCHANGED cacheRest

\* load_from_cache_inner: Trie::load_from_file(cache_path)?
LoadArtifact(i) ==
    /\ cpc[i] = "load_artifact"
    /\ LET got == trie_load(artifact[clocal[i].path]) IN
       clocal' = [clocal EXCEPT ![i].result =
                      IF got.ok THEN [kind |-> "cached", trie |-> got.trie]
                      ELSE [kind |-> "error", trie |-> TrieNew]]
    /\ Goto(i, "done")
    /\ UNCHANGED <<source, store, artifact, edits, runs, cleared>>
    /\ UNCHANGED cacheRest

\* compile_inner: load_dictionary_format_from_file(path) and Trie::from
ReadSource(i) ==
    /\ cpc[i] = "read_source"
    /\ LET rules == source[clocal[i].path]
           trie == trie_from(rules) IN
       /\ clocal' = [clocal EXCEPT
                        ![i].read = TRUE, ![i].rules = rules, ![i].trie = trie,
                        ![i].result = IF trie.options.cache THEN @
                                      ELSE [kind |-> "compiled", trie |-> trie]]
       /\ IF trie.options.cache THEN Goto(i, "save_hash") ELSE Goto(i, "done")
    /\ UNCHANGED <<source, store, artifact, edits, runs, cleared>>
    /\ UNCHANGED cacheRest

\* save_to_cache_inner: fs_hash = get_path_hash(path)
SaveHash(i) ==
    /\ cpc[i] = "save_hash"
    /\ clocal' = [clocal EXCEPT ![i].save_fs_hash = get_path_hash(source[clocal[i].path])]
    /\ Goto(i, "save_artifact")
    /\ UNCHANGED <<source, store, artifact, edits, runs, cleared>>
    /\ UNCHANGED cacheRest

\* save_to_cache_inner: trie.dump_to_file(&cache_path)
SaveArtifact(i) ==
    /\ cpc[i] = "save_artifact"
    /\ artifact' = [artifact EXCEPT ![clocal[i].path] = trie_dump(clocal[i].trie)]
    /\ Goto(i, "save_load_store")
    /\ UNCHANGED <<source, store, clocal, edits, runs, cleared>>
    /\ UNCHANGED cacheRest

\* save_to_cache_inner: DictCacheStore::load_from_file
SaveLoadStore(i) ==
    /\ cpc[i] = "save_load_store"
    /\ clocal' = [clocal EXCEPT ![i].loaded = store]
    /\ Goto(i, "save_dump_store")
    /\ UNCHANGED <<source, store, artifact, edits, runs, cleared>>
    /\ UNCHANGED cacheRest

\* save_to_cache_inner: insert(path_hash, fs_hash) and dump_to_file
SaveDumpStore(i) ==
    /\ cpc[i] = "save_dump_store"
    /\ store' = store_insert(clocal[i].loaded, path_hash(clocal[i].path),
                             clocal[i].save_fs_hash)
    /\ clocal' = [clocal EXCEPT ![i].result =
                      [kind |-> "compiled", trie |-> clocal[i].trie]]
    /\ Goto(i, "done")
    /\ UNCHANGED <<source, artifact, edits, runs, cleared>>
    /\ UNCHANGED cacheRest

\* the user rewrites a dictionary file
EditSource(d, text) ==
    /\ edits < MaxEdits
    /\ text # source[d]
    /\ source' = [source EXCEPT ![d] = text]
    /\ edits' = edits + 1
    /\ UNCHANGED <<store, artifact, cpc, clocal, runs, cleared>>
    /\ UNCHANGED cacheRest

\* `cache clear` (remove_dir_all) removes the files of the cache directory
\* one after the other: here an artifact
ClearArtifact(d) ==
    /\ d \notin cleared
    /\ artifact[d] # NoFile
    /\ artifact' = [artifact EXCEPT ![d] = NoFile]
    /\ cleared' = cleared \cup {d}
    /\ UNCHANGED <<source, store, cpc, clocal, edits, runs>>
    /\ UNCHANGED cacheRest

\* `cache clear`: here cache.json
ClearStore ==
    /\ "cache.json" \notin cleared
    /\ store # DictCacheStoreNew
    /\ store' = DictCacheStoreNew
    /\ cleared' = cleared \cup {"cache.json"}
    /\ UNCHANGED <<source, artifact, cpc, clocal, edits, runs>>
    /\ UNCHANGED cacheRest

CacheNext ==
    \/ \E i \in Invocations, d \in Dicts : CompileBegin(i, d)
    \/ \E i \in Invocations : LoadHash(i)
    \/ \E i \in Invocations : LoadStore(i)
    \/ \E i \in Invocations : LoadExists(i)
    \/ \E i \in Invocations : LoadArtifact(i)
    \/ \E i \in Invocations : ReadSource(i)
    \/ \E i \in Invocations : SaveHash(i)
    \/ \E i \in Invocations : SaveArtifact(i)
    \/ \E i \in Invocations : SaveLoadStore(i)
    \/ \E i \in Invocations : SaveDumpStore(i)
    \/ \E d \in Dicts, text \in SourceTexts : EditSource(d, text)
    \/ \E d \in Dicts : ClearArtifact(d)
    \/ ClearStore

\* two compiles one after the other: the user may rewrite the dictionary
\* files, then one invocation compiles a dictionary, and when it has returned
\* another invocation compiles a dictionary
CacheTwiceNext ==
    \/ \E d \in Dicts, text \in SourceTexts : runs = 0 /\ EditSource(d, text)
    \/ \E i \in Invocations, d \in Dicts : runs = 0 /\ CompileBegin(i, d)
    \/ \E i, j \in Invocations, d \in Dicts :
          /\ runs = 1 /\ i # j /\ cpc[j] = "done"
          /\ CompileBegin(i, d)
    \/ \E i \in Invocations : LoadHash(i)
    \/ \E i \in Invocations : LoadStore(i)
    \/ \E i \in Invocations : LoadExists(i)
    \/ \E i \in Invocations : LoadArtifact(i)
    \/ \E i \in Invocations : ReadSource(i)
    \/ \E i \in Invocations : SaveHash(i)
    \/ \E i \in Invocations : SaveArtifact(i)
    \/ \E i \in Invocations : SaveLoadStore(i)
    \/ \E i \in Invocations : SaveDumpStore(i)

\* the values the decoder variables keep while another part of the model runs
DecoderQuiet ==
    /\ nodes = TrieBuilderNew.nodes
    /\ pos = TrieBuilderNew.pos
    /\ pos_string = TrieBuilderNew.pos_string
    /\ state = TrieBuilderNew.state
    /\ chars = TrieBuilderNew.chars
    /\ fault = TrieBuilderNew.fault
    /\ header_base = 10
    /\ consumed = <<>>
    /\ rest = <<>>
    /\ free = FALSE
    /\ output = [kind |-> "trie", words |-> <<>>]

(***************************************************************************)
(* The check pipeline: check() and handle_file() of main.rs.               *)
(***************************************************************************)
\* tokio::sync::mpsc::channel(256): the file channel
FileQueueCap == 256

\* tokio::sync::mpsc::channel(256): the result channel
ResultQueueCap == 256

\* the threads of (0..num_threads), num_threads = jobs()
Workers == {"w1", "w2"}

\* the file counts of the model: small runs, and one file more than the file
\* channel holds
FileCounts == (0..MaxFiles) \cup {FileQueueCap + 1}

\* context.get_dictionaries(): the dictionaries of the settings and the store
GetDictionaries == <<"en", "rust">>

DictionaryNames == {GetDictionaries[i] : i \in 1..Len(GetDictionaries)}

\* the base dictionaries a run may name: one the loader has, and one more
\* that is in no dictionary definition
BaseDictionaries == {<<"en">>, <<"en", "fr">>}

\* the extensions of the files of the model
Extensions == {"rs", "py", "txt"}

NoExtension == "none"

NoMultiTrie == [kind |-> "none"]

\* the mutant of get_multi_trie: a name that is not in the map is skipped
get_multi_trie_skip_missing(ext, base, map) ==
    LET language == IF ext = "c" THEN <<"c">>
                    ELSE IF ext = "cpp" THEN <<"cpp">>
                    ELSE IF ext = "rs" THEN <<"rust">>
                    ELSE IF ext = "py" THEN <<"python">>
                    ELSE <<>>
        tries == base \o language
        present == SelectSeq(tries, LAMBDA name : name \in map) IN
    [kind |-> "ok", inner |-> present \o <<"custom">>]

\* get_multi_trie: the base dictionaries, then the dictionary of the file's
\* extension, each looked up in context.dictionaries; `?` on the first name
\* that is not there; the custom trie is pushed last
get_multi_trie(ext, base, map) ==
    LET language == IF ext = "c" THEN <<"c">>
                    ELSE IF ext = "cpp" THEN <<"cpp">>
                    ELSE IF ext = "rs" THEN <<"rust">>
                    ELSE IF ext = "py" THEN <<"python">>
                    ELSE <<>>
        tries == base \o language IN
    IF \E k \in 1..Len(tries) : tries[k] \notin map
    THEN [kind |-> "err",
          name |-> tries[CHOOSE k \in 1..Len(tries) :
                             /\ tries[k] \notin map
                             /\ \A j \in 1..(k - 1) : tries[j] \in map]]
    ELSE [kind |-> "ok", inner |-> tries \o <<"custom">>]

\* files in the file channel
fileQueue == sent - taken

\* a worker that holds no file; the files are numbered from 1 in the order
\* of the walk, which is the order of the file channel
NoPath == 0

\* handle_file has returned, and dropped its result_sender
Returned(w) == wpc[w] \in {"exited", "failed"}

PipelineInit ==
    /\ numFiles \in FileCounts
    /\ dictPc = "running"
    /\ compiles \in [DictionaryNames -> BOOLEAN]
    /\ dictNext = 1
    /\ dictionaries = {}
    /\ base_dictionaries \in BaseDictionaries
    /\ wfile = [w \in Workers |-> NoExtension]
    /\ wtrie = [w \in Workers |-> NoMultiTrie]
    /\ wpath = [w \in Workers |-> NoPath]
    /\ results = <<>>
    /\ received = <<>>
    /\ mainSender = FALSE
    /\ loaderPc = "walking"
    /\ sent = 0
    /\ taken = 0
    /\ mainPc = "join"
    /\ wpc = [w \in Workers |-> "unspawned"]
    /\ resQueue = 0
    /\ counter = 0

\* the values the pipeline variables keep while another part of the model runs
PipelineQuiet ==
    /\ numFiles = 0
    /\ dictPc = "running"
    /\ compiles = [d \in DictionaryNames |-> TRUE]
    /\ dictNext = 1
    /\ dictionaries = {}
    /\ base_dictionaries = <<>>
    /\ wfile = [w \in Workers |-> NoExtension]
    /\ wtrie = [w \in Workers |-> NoMultiTrie]
    /\ wpath = [w \in Workers |-> NoPath]
    /\ results = <<>>
    /\ received = <<>>
    /\ mainSender = FALSE
    /\ loaderPc = "walking"
    /\ sent = 0
    /\ taken = 0
    /\ mainPc = "join"
    /\ wpc = [w \in Workers |-> "unspawned"]
    /\ resQueue = 0
    /\ counter = 0

\* dictionary_loader, one turn of the loop: dict.compile()? returns the error
\* from the task, or the word-index is inserted under its name
DictionaryLoader ==
    /\ dictPc = "running"
    /\ dictNext <= Len(GetDictionaries)
    /\ LET dict == GetDictionaries[dictNext] IN
        IF compiles[dict]
        THEN /\ dictionaries' = dictionaries \cup {dict}
             /\ dictNext' = dictNext + 1
             /\ UNCHANGED dictPc
        ELSE /\ dictPc' = "err"
             /\ UNCHANGED <<dictNext, dictionaries>>
    /\ UNCHANGED <<setVars, numFiles, compiles, loaderPc, sent, taken, mainPc, wpc, resQueue,
                   counter>>
    /\ UNCHANGED chanVars
    /\ UNCHANGED pipelineRest

\* dictionary_loader: the loop is over, the task returns Ok(())
DictionaryLoaderDone ==
    /\ dictPc = "running"
    /\ dictNext > Len(GetDictionaries)
    /\ dictPc' = "ok"
    /\ UNCHANGED <<setVars, numFiles, dictVars, loaderPc, sent, taken, mainPc, wpc, resQueue,
                   counter>>
    /\ UNCHANGED chanVars
    /\ UNCHANGED pipelineRest

\* file_loader: file_sender.send(path).await, which waits for room
FileLoaderSend ==
    /\ loaderPc = "walking"
    /\ sent < numFiles
    /\ fileQueue < FileQueueCap
    /\ sent' = sent + 1
    /\ UNCHANGED <<setVars, dictVars, numFiles, dictPc, loaderPc, taken, mainPc, wpc,
                   resQueue, counter>>
    /\ UNCHANGED chanVars
    /\ UNCHANGED pipelineRest

\* file_loader: the walk is over, the task returns files and drops file_sender
FileLoaderDone ==
    /\ loaderPc = "walking"
    /\ sent = numFiles
    /\ loaderPc' = "done"
    /\ UNCHANGED <<setVars, dictVars, numFiles, dictPc, sent, taken, mainPc, wpc,
                   resQueue, counter>>
    /\ UNCHANGED chanVars
    /\ UNCHANGED pipelineRest

\* the mutant of MainJoin: only file_loader is awaited
MainJoinFilesOnly ==
    /\ mainPc = "join"
    /\ loaderPc = "done"
    /\ mainPc' = IF dictPc = "err" THEN "failed"
                 ELSE IF numFiles = 0 THEN "done"
                 ELSE "spawn"
    /\ UNCHANGED <<setVars, dictVars, numFiles, dictPc, loaderPc, sent, taken, wpc,
                   resQueue, counter>>
    /\ UNCHANGED chanVars
    /\ UNCHANGED pipelineRest

\* check(): tokio::join!(dictionary_loader, file_loader), then res?? and
\* files.is_empty()
MainJoin ==
    /\ mainPc = "join"
    /\ dictPc # "running"
    /\ loaderPc = "done"
    /\ mainPc' = IF dictPc = "err" THEN "failed"
                 ELSE IF numFiles = 0 THEN "done"
                 ELSE "spawn"
    /\ UNCHANGED <<setVars, dictVars, numFiles, dictPc, loaderPc, sent, taken, wpc,
                   resQueue, counter>>
    /\ UNCHANGED chanVars
    /\ UNCHANGED pipelineRest

\* check(): the result channel is made and the worker threads are spawned,
\* each with a clone of result_sender
MainSpawn ==
    /\ mainPc = "spawn"
    /\ wpc' = [w \in Workers |-> "recv"]
    /\ mainSender' = TRUE
    /\ mainPc' = "drop"
    /\ UNCHANGED <<setVars, dictVars, numFiles, dictPc, loaderPc, sent, taken,
                   resQueue, counter, wpath, results, received>>
    /\ UNCHANGED pipelineRest

\* the mutant of MainDropSender: the main task keeps its result_sender
MainDropSenderKept ==
    /\ mainPc = "drop"
    /\ mainPc' = "sink"
    /\ UNCHANGED <<setVars, dictVars, numFiles, dictPc, loaderPc, sent, taken, wpc,
                   resQueue, counter>>
    /\ UNCHANGED chanVars
    /\ UNCHANGED pipelineRest

\* check(): drop(result_sender), before the sink loop
MainDropSender ==
    /\ mainPc = "drop"
    /\ mainSender' = FALSE
    /\ mainPc' = "sink"
    /\ UNCHANGED <<setVars, dictVars, numFiles, dictPc, loaderPc, sent, taken, wpc,
                   resQueue, counter, wpath, results, received>>
    /\ UNCHANGED pipelineRest

\* the mutant of WorkerRecv: the file is read but stays in the file channel
WorkerRecvPeek(w, ext) ==
    /\ wpc[w] = "recv"
    /\ fileQueue > 0
    /\ wfile' = [wfile EXCEPT ![w] = ext]
    /\ wtrie' = [wtrie EXCEPT ![w] = NoMultiTrie]
    /\ wpath' = [wpath EXCEPT ![w] = taken + 1]
    /\ wpc' = [wpc EXCEPT ![w] = "get_code"]
    /\ UNCHANGED <<base_dictionaries, dictVars, numFiles, dictPc, loaderPc, sent,
                   taken, mainPc, resQueue, counter, results, received,
                   mainSender>>
    /\ UNCHANGED pipelineRest

\* handle_file: file_receiver.lock().await.recv().await gives a file
WorkerRecv(w, ext) ==
    /\ wpc[w] = "recv"
    /\ fileQueue > 0
    /\ taken' = taken + 1
    /\ wfile' = [wfile EXCEPT ![w] = ext]
    /\ wtrie' = [wtrie EXCEPT ![w] = NoMultiTrie]
    /\ wpath' = [wpath EXCEPT ![w] = taken + 1]
    /\ wpc' = [wpc EXCEPT ![w] = "get_code"]
    /\ UNCHANGED <<base_dictionaries, dictVars, numFiles, dictPc, loaderPc, sent,
                   mainPc, resQueue, counter, results, received,
                   mainSender>>
    /\ UNCHANGED pipelineRest

\* the mutant of WorkerExit: the worker leaves its loop once discovery is
\* over, whatever the file channel still holds
WorkerExitWhenClosed(w) ==
    /\ wpc[w] = "recv"
    /\ loaderPc = "done"
    /\ wpc' = [wpc EXCEPT ![w] = "exited"]
    /\ UNCHANGED <<setVars, dictVars, numFiles, dictPc, loaderPc, sent, taken, mainPc,
                   resQueue, counter>>
    /\ UNCHANGED chanVars
    /\ UNCHANGED pipelineRest

\* handle_file: recv() gives None, the file channel is closed and drained
WorkerExit(w) ==
    /\ wpc[w] = "recv"
    /\ fileQueue = 0
    /\ loaderPc = "done"
    /\ wpc' = [wpc EXCEPT ![w] = "exited"]
    /\ UNCHANGED <<setVars, dictVars, numFiles, dictPc, loaderPc, sent, taken, mainPc,
                   resQueue, counter>>
    /\ UNCHANGED chanVars
    /\ UNCHANGED pipelineRest

\* handle_file: get_code(&file).await...?
WorkerGetCode(w, ok) ==
    /\ wpc[w] = "get_code"
    /\ wpc' = [wpc EXCEPT ![w] = IF ok THEN "get_multi_trie" ELSE "failed"]
    /\ UNCHANGED <<setVars, dictVars, numFiles, dictPc, loaderPc, sent, taken, mainPc,
                   resQueue, counter>>
    /\ UNCHANGED chanVars
    /\ UNCHANGED pipelineRest

\* the mutant of WorkerGetMultiTrie: a name that is missing is entered in the
\* map by the worker
WorkerGetMultiTrieInserting(w) ==
    /\ wpc[w] = "get_multi_trie"
    /\ LET dict == get_multi_trie(wfile[w], base_dictionaries, dictionaries) IN
       /\ wtrie' = [wtrie EXCEPT ![w] = dict]
       /\ wpc' = [wpc EXCEPT ![w] = IF dict.kind = "ok" THEN "parse" ELSE "failed"]
       /\ dictionaries' = IF dict.kind = "ok" THEN dictionaries
                          ELSE dictionaries \cup {dict.name}
    /\ UNCHANGED <<base_dictionaries, wfile, compiles, dictNext, numFiles, dictPc,
                   loaderPc, sent, taken, mainPc, resQueue, counter>>
    /\ UNCHANGED chanVars
    /\ UNCHANGED pipelineRest

\* handle_file: get_multi_trie(&file, context)...?
WorkerGetMultiTrie(w) ==
    /\ wpc[w] = "get_multi_trie"
    /\ LET dict == get_multi_trie(wfile[w], base_dictionaries, dictionaries) IN
       /\ wtrie' = [wtrie EXCEPT ![w] = dict]
       /\ wpc' = [wpc EXCEPT ![w] = IF dict.kind = "ok" THEN "parse" ELSE "failed"]
    /\ UNCHANGED <<base_dictionaries, wfile, dictVars, numFiles, dictPc, loaderPc,
                   sent, taken, mainPc, resQueue, counter>>
    /\ UNCHANGED chanVars
    /\ UNCHANGED pipelineRest

\* handle_file: parser.parse and handle_node return, the result is built
WorkerParse(w) ==
    /\ wpc[w] = "parse"
    /\ wpc' = [wpc EXCEPT ![w] = "send"]
    /\ UNCHANGED <<setVars, dictVars, numFiles, dictPc, loaderPc, sent, taken, mainPc,
                   resQueue, counter>>
    /\ UNCHANGED chanVars
    /\ UNCHANGED pipelineRest

\* handle_file: result_sender.send(result).await, which waits for room
WorkerSend(w) ==
    /\ wpc[w] = "send"
    /\ resQueue < ResultQueueCap
    /\ resQueue' = resQueue + 1
    /\ results' = Append(results, wpath[w])
    /\ wpc' = [wpc EXCEPT ![w] = "recv"]
    /\ UNCHANGED <<setVars, dictVars, numFiles, dictPc, loaderPc, sent, taken, mainPc,
                   counter, wpath, received, mainSender>>
    /\ UNCHANGED pipelineRest

\* check(): result_receiver.recv().await gives Some(result); counter += 1
SinkRecv ==
    /\ mainPc = "sink"
    /\ resQueue > 0
    /\ resQueue' = resQueue - 1
    /\ counter' = counter + 1
    /\ results' = Tail(results)
    /\ received' = Append(received, Head(results))
    /\ UNCHANGED <<setVars, dictVars, numFiles, dictPc, loaderPc, sent, taken, mainPc,
                   wpc, wpath, mainSender>>
    /\ UNCHANGED pipelineRest

\* check(): recv() gives None, every result_sender is dropped
SinkClosed ==
    /\ mainPc = "sink"
    /\ resQueue = 0
    /\ ~mainSender
    /\ \A w \in Workers : Returned(w)
    /\ mainPc' = "join_threads"
    /\ UNCHANGED <<setVars, dictVars, numFiles, dictPc, loaderPc, sent, taken, wpc,
                   resQueue, counter>>
    /\ UNCHANGED chanVars
    /\ UNCHANGED pipelineRest

\* check(): thread.join().unwrap()? for every thread
MainJoinThreads ==
    /\ mainPc = "join_threads"
    /\ mainPc' = IF \E w \in Workers : wpc[w] = "failed" THEN "failed" ELSE "done"
    /\ UNCHANGED <<setVars, dictVars, numFiles, dictPc, loaderPc, sent, taken, wpc,
                   resQueue, counter>>
    /\ UNCHANGED chanVars
    /\ UNCHANGED pipelineRest

PipelineNext ==
    \/ DictionaryLoader
    \/ DictionaryLoaderDone
    \/ FileLoaderSend
    \/ FileLoaderDone
    \/ MainJoin
    \/ MainSpawn
    \/ MainDropSender
    \/ \E w \in Workers, ext \in Extensions : WorkerRecv(w, ext)
    \/ \E w \in Workers : WorkerExit(w)
    \/ \E w \in Workers, ok \in BOOLEAN : WorkerGetCode(w, ok)
    \/ \E w \in Workers : WorkerGetMultiTrie(w)
    \/ \E w \in Workers : WorkerParse(w)
    \/ \E w \in Workers : WorkerSend(w)
    \/ SinkRecv
    \/ SinkClosed
    \/ MainJoinThreads

\* handle_file: parser.parse(&source_code, None) or handle_node does not
\* return (the grammar parser is an opaque collaborator without a timeout)
WorkerHang(w) ==
    /\ wpc[w] = "parse"
    /\ wpc' = [wpc EXCEPT ![w] = "hung"]
    /\ UNCHANGED <<setVars, dictVars, numFiles, dictPc, loaderPc, sent, taken, mainPc,
                   resQueue, counter>>
    /\ UNCHANGED chanVars
    /\ UNCHANGED pipelineRest

\* the pipeline with a grammar parser that may hang
PipelineHangNext ==
    \/ PipelineNext
    \/ \E w \in Workers : WorkerHang(w)

(***************************************************************************)
(* The header of a CSpell trie file: parse_header and parse_trie.          *)
(***************************************************************************)
\* Option: None, Some(x) and unwrap
None == <<>>

Some(x) == <<x>>

\* str::starts_with
starts_with(s, p) == Len(s) >= Len(p) /\ SubSeq(s, 1, Len(p)) = p

\* str::ends_with
ends_with(s, p) == Len(s) >= Len(p) /\ SubSeq(s, Len(s) - Len(p) + 1, Len(s)) = p

\* str::strip_prefix(p).unwrap() of a string that starts with p
strip_prefix(s, p) == SubSeq(s, Len(p) + 1, Len(s))

\* the largest u8
U8Max == 255

\* str::parse::<u8>: the value, or -1 for Err
parse_u8(s) ==
    LET n == from_str_radix(s, 10) IN IF n > U8Max THEN -1 ELSE n

\* Version::to_u8: split('v').next_back(), parsed; -1 where unwrap panics
to_u8(v) ==
    LET vs == {i \in 1..Len(v) : v[i] = "v"}
        from == IF vs = {} THEN 1 ELSE (CHOOSE i \in vs : \A j \in vs : j <= i) + 1
    IN parse_u8(SubSeq(v, from, Len(v)))

PrefixTrieXv == <<"T", "r", "i", "e", "X", "v">>

PrefixBase == <<"b", "a", "s", "e", "=">>

Sentinel == <<"_", "_", "D", "A", "T", "A", "_", "_">>

LineTrieXv4 == PrefixTrieXv \o <<"4">>

LineBase10 == PrefixBase \o <<"1", "0">>

LineBase32 == PrefixBase \o <<"3", "2">>

\* a base that does not fit a u8
LineBase300 == PrefixBase \o <<"3", "0", "0">>

\* a line that ends with the sentinel and is not the sentinel
LineDataSuffix == <<"x">> \o Sentinel

LineBody == <<"a", "$">>

\* the lines a file of the model is made of
HeaderLines ==
    {LineTrieXv4, LineBase10, LineBase32, LineBase300, Sentinel,
     LineDataSuffix, LineBody}

\* test_parse_header: the input
InputTestHeader == <<LineTrieXv4, LineBase10, Sentinel>>

\* parse_body over the lines of the body, character by character
RECURSIVE parse_body_line(_, _, _, _)
parse_body_line(m, line, b, overflow_checks) ==
    IF Len(line) = 0 \/ m.fault # "none" THEN m
    ELSE parse_body_line(parse_body_char(m, Head(line), b, overflow_checks),
                         Tail(line), b, overflow_checks)

RECURSIVE parse_body_lines(_, _, _, _)
parse_body_lines(m, lines, b, overflow_checks) ==
    IF Len(lines) = 0 \/ m.fault # "none" THEN m
    ELSE parse_body_lines(parse_body_line(m, Head(lines), b, overflow_checks),
                          Tail(lines), b, overflow_checks)

\* parse_body: the converted trie, or a panic
parse_body(lines, b, overflow_checks) ==
    LET m == parse_body_lines(TrieBuilderNew, lines, b, overflow_checks) IN
    IF m.fault # "none" THEN [kind |-> "panic", words |-> <<>>]
    ELSE convert_trie(m.nodes)

HeaderInit ==
    /\ input \in UNION {[1..k -> HeaderLines] : k \in 0..MaxLines}
    /\ header_counter = 0
    /\ parsed_version = None
    /\ parsed_base = None
    /\ hpc = "loop"
    /\ parsed = Pending

\* the values the header variables keep while another part of the model runs
HeaderQuiet ==
    /\ input = <<>>
    /\ header_counter = 0
    /\ parsed_version = None
    /\ parsed_base = None
    /\ hpc = "loop"
    /\ parsed = Pending

\* parse_header: one turn of the loop
HeaderLine ==
    /\ hpc = "loop"
    /\ header_counter' = header_counter + 1
    /\ IF header_counter >= Len(input)
       THEN /\ hpc' = "finish"
            /\ UNCHANGED <<parsed_version, parsed_base>>
       ELSE LET line == input[header_counter + 1] IN
            IF ends_with(line, Sentinel)
            THEN /\ hpc' = "finish"
                 /\ UNCHANGED <<parsed_version, parsed_base>>
            ELSE /\ parsed_version' = IF starts_with(line, PrefixTrieXv)
                               THEN Some(strip_prefix(line, PrefixTrieXv))
                               ELSE parsed_version
                 /\ IF starts_with(line, PrefixBase)
                    THEN LET n == parse_u8(strip_prefix(line, PrefixBase)) IN
                         IF n < 0
                         THEN hpc' = "err" /\ UNCHANGED parsed_base
                         ELSE hpc' = "loop" /\ parsed_base' = Some(n)
                    ELSE UNCHANGED <<hpc, parsed_base>>
    /\ UNCHANGED <<input, parsed>>
    /\ UNCHANGED headerRest

\* parse_header: Ok((counter, Header { version.unwrap(), base.unwrap() }))
HeaderReturn ==
    /\ hpc = "finish"
    /\ hpc' = IF parsed_version = None \/ parsed_base = None THEN "panic" ELSE "parsed"
    /\ UNCHANGED <<input, header_counter, parsed_version, parsed_base, parsed>>
    /\ UNCHANGED headerRest

\* parse_trie: &input[counter..] and parse_body
ParseTrieBody ==
    /\ hpc = "parsed"
    /\ \E overflow_checks \in BOOLEAN :
          parsed' = IF header_counter > Len(input)
                    THEN [kind |-> "panic", words |-> <<>>]
                    ELSE parse_body(SubSeq(input, header_counter + 1, Len(input)),
                                    parsed_base[1], overflow_checks)
    /\ hpc' = IF parsed'.kind = "panic" THEN "panic" ELSE "done"
    /\ UNCHANGED <<input, header_counter, parsed_version, parsed_base>>
    /\ UNCHANGED headerRest

HeaderNext == HeaderLine \/ HeaderReturn \/ ParseTrieBody

(***************************************************************************)
(* Compiling a word-index: load_dictionary_line, Trie::from and            *)
(* Trie::contains.  Words and lines are sequences of characters.           *)
(***************************************************************************)
UpperChars ==
    <<"A", "B", "C", "D", "E", "F", "G", "H", "I", "J", "K", "L", "M",
      "N", "O", "P", "Q", "R", "S", "T", "U", "V", "W", "X", "Y", "Z">>

LowerChars ==
    <<"a", "b", "c", "d", "e", "f", "g", "h", "i", "j", "k", "l", "m",
      "n", "o", "p", "q", "r", "s", "t", "u", "v", "w", "x", "y", "z">>

\* char::is_uppercase on the characters of the model
is_uppercase(c) == \E i \in 1..Len(UpperChars) : UpperChars[i] = c

\* char::to_ascii_lowercase
char_to_ascii_lowercase(c) ==
    IF is_uppercase(c)
    THEN LowerChars[CHOOSE i \in 1..Len(UpperChars) : UpperChars[i] = c]
    ELSE c

\* str::to_ascii_lowercase
to_ascii_lowercase(w) == [i \in 1..Len(w) |-> char_to_ascii_lowercase(w[i])]

\* str::trim_start, trim_end and trim; the white space of the model is " "
RECURSIVE trim_start(_)
trim_start(w) == IF Len(w) > 0 /\ Head(w) = " " THEN trim_start(Tail(w)) ELSE w

RECURSIVE trim_end(_)
trim_end(w) ==
    IF Len(w) > 0 /\ w[Len(w)] = " " THEN trim_end(SubSeq(w, 1, Len(w) - 1)) ELSE w

trim(w) == trim_end(trim_start(w))

\* str::trim_start_matches(p): every leading repetition of p is removed
RECURSIVE trim_start_matches(_, _)
trim_start_matches(w, p) ==
    IF starts_with(w, p) THEN trim_start_matches(strip_prefix(w, p), p) ELSE w

\* line.split("/").next(): the text before the first "/"
split_slash_first(w) ==
    LET is == {i \in 1..Len(w) : w[i] = "/"} IN
    IF is = {} THEN w
    ELSE SubSeq(w, 1, (CHOOSE i \in is : \A j \in is : i <= j) - 1)

StrCsc == <<"c", "s", "c", ":">>

StrCaseSensitive == <<"c", "a", "s", "e", "-", "s", "e", "n", "s", "i", "t", "i", "v", "e">>

StrCache == <<"c", "a", "c", "h", "e", ":">>

StrTrue == <<"t", "r", "u", "e">>

StrFalse == <<"f", "a", "l", "s", "e">>

\* Rule::Comment
Comment(text) == [kind |-> "Comment", word |-> text]

\* Command::from_str: None, or Some(command rule)
command_from_str(w) ==
    IF w = StrCaseSensitive THEN Some(CommandCaseSensitive)
    ELSE IF starts_with(w, StrCache)
    THEN LET value == trim_start_matches(w, StrCache) IN
         IF value = StrTrue THEN Some(CommandCache(TRUE))
         ELSE IF value = StrFalse THEN Some(CommandCache(FALSE))
         ELSE None
    ELSE None

\* load_dictionary_line
load_dictionary_line(line) ==
    LET trimmed == trim(split_slash_first(line)) IN
    IF Len(trimmed) = 0 THEN Comment(<<>>)
    ELSE IF starts_with(trimmed, <<"#">>) \/ starts_with(trimmed, <<"/", "/">>)
    THEN LET comment == trim(trim_start_matches(
                                 trim_start_matches(trimmed, <<"#">>), <<"/", "/">>))
         IN IF starts_with(comment, StrCsc)
            THEN LET cmd == command_from_str(
                                trim(trim_start_matches(comment, StrCsc)))
                 IN IF cmd # None THEN cmd[1] ELSE Comment(comment)
            ELSE Comment(comment)
    ELSE IF starts_with(trimmed, <<"!">>)
    THEN Disallow(to_ascii_lowercase(trim(trim_start_matches(trimmed, <<"!">>))))
    ELSE IF starts_with(trimmed, <<"+">>)
    THEN Allow(to_ascii_lowercase(trim(trim_start_matches(trimmed, <<"+">>))))
    ELSE Allow(to_ascii_lowercase(trimmed))

\* load_dictionary_format: every line, in order
load_dictionary_format(ls) == [i \in 1..Len(ls) |-> load_dictionary_line(ls[i])]

\* Trie::contains
trie_contains(t, w) == \E e \in t.entries : e[1] = w /\ ~e[2]

WordBar == <<"B", "a", "r">>

WordBarLower == <<"b", "a", "r">>

\* the rules of the model's rule lists
RulesOfModel ==
    {Allow(WordBar), Allow(WordBarLower), Disallow(WordBar),
     Disallow(WordBarLower), CommandCaseSensitive}

LineBar == WordBar

LineDisallowBar == <<"!">> \o WordBar

LinePlusBar == <<" ", "+">> \o WordBarLower \o <<" ", "/", "x">>

LineCaseSensitive == <<"#", " ">> \o StrCsc \o StrCaseSensitive

LineEmpty == <<>>

LineSlashCaseSensitive == <<"/", "/", " ">> \o StrCsc \o StrCaseSensitive

LineCacheFalse == <<"#">> \o StrCsc \o <<" ">> \o StrCache \o StrFalse

LineNote == <<"#", " ">> \o WordBar

\* the lines of the model's dictionary files
LinesOfModel ==
    {LineBar, LineDisallowBar, LinePlusBar, LineCaseSensitive, LineEmpty,
     LineSlashCaseSensitive, LineCacheFalse, LineNote}

IndexInit ==
    /\ index = TrieNew
    /\ \/ /\ dict_lines = <<>>
          /\ dict_rules \in UNION {[1..k -> RulesOfModel] : k \in 0..MaxRules}
          /\ ipc = "compile"
       \/ /\ dict_lines \in UNION {[1..k -> LinesOfModel] : k \in 1..MaxRules}
          /\ dict_rules = <<>>
          /\ ipc = "load"

\* the values the index variables keep while another part of the model runs
IndexQuiet ==
    /\ dict_lines = <<>>
    /\ dict_rules = <<>>
    /\ index = TrieNew
    /\ ipc = "compile"

\* load_dictionary_format_from_file: the rules of the lines
LoadLines ==
    /\ ipc = "load"
    /\ dict_rules' = load_dictionary_format(dict_lines)
    /\ ipc' = "compile"
    /\ UNCHANGED <<dict_lines, index>>
    /\ UNCHANGED indexRest

\* Trie::from(rules)
CompileRules ==
    /\ ipc = "compile"
    /\ index' = trie_from(dict_rules)
    /\ ipc' = "done"
    /\ UNCHANGED <<dict_lines, dict_rules>>
    /\ UNCHANGED indexRest

IndexNext == LoadLines \/ CompileRules

(***************************************************************************)
(* The multi-index: MultiTrie::contains, check_parts, handle_identifier.   *)
(***************************************************************************)
\* the mutant of multi_contains: a member that disallows the word ends the
\* search
RECURSIVE multi_contains_veto(_, _)
multi_contains_veto(inner, word) ==
    IF Len(inner) = 0 THEN FALSE
    ELSE IF trie_contains(Head(inner), word) THEN TRUE
    ELSE IF <<word, TRUE>> \in Head(inner).entries THEN FALSE
    ELSE multi_contains_veto(Tail(inner), word)

\* MultiTrie::contains
RECURSIVE multi_contains(_, _)
multi_contains(inner, word) ==
    IF Len(inner) = 0 THEN FALSE
    ELSE IF trie_contains(Head(inner), word) THEN TRUE
    ELSE multi_contains(Tail(inner), word)

\* check_parts: split_by_capitalization
RECURSIVE split_by_capitalization_acc(_, _, _)
split_by_capitalization_acc(word, current_part, parts) ==
    IF Len(word) = 0
    THEN IF Len(current_part) > 0 THEN Append(parts, current_part) ELSE parts
    ELSE IF is_uppercase(Head(word)) /\ Len(current_part) > 0
    THEN split_by_capitalization_acc(Tail(word), <<Head(word)>>,
                                     Append(parts, current_part))
    ELSE split_by_capitalization_acc(Tail(word), Append(current_part, Head(word)),
                                     parts)

split_by_capitalization(word) == split_by_capitalization_acc(word, <<>>, <<>>)

\* part.chars().all(char::is_numeric)
all_numeric(part) == \A i \in 1..Len(part) : is_numeric(part[i])

\* the mutant of failing_sub_parts: only the first sub-part is looked up
failing_sub_parts_first_only(inner, part) ==
    LET subs == split_by_capitalization(part) IN
    SelectSeq(SubSeq(subs, 1, 1),
              LAMBDA sub_part : ~multi_contains(inner, to_ascii_lowercase(sub_part)))

\* check_parts: the sub-parts of part that the inner loop finds missing
failing_sub_parts(inner, part) ==
    SelectSeq(split_by_capitalization(part),
              LAMBDA sub_part : ~multi_contains(inner, to_ascii_lowercase(sub_part)))

\* the mutant of part_fails: the first missing sub-part is reported
part_fails_with_sub_part(inner, part) ==
    IF multi_contains(inner, to_ascii_lowercase(part)) \/ all_numeric(part)
       \/ Len(failing_sub_parts(inner, part)) = 0
    THEN None
    ELSE Some(Head(failing_sub_parts(inner, part)))

\* check_parts: the body of the loop for one part: None, or Some(part) where
\* the loop returns
part_fails(inner, part) ==
    IF multi_contains(inner, to_ascii_lowercase(part)) \/ all_numeric(part)
       \/ Len(failing_sub_parts(inner, part)) = 0
    THEN None
    ELSE Some(part)

\* MultiTrie::check_parts
RECURSIVE check_parts(_, _)
check_parts(inner, parts) ==
    IF Len(parts) = 0 THEN None
    ELSE IF part_fails(inner, Head(parts)) # None
    THEN part_fails(inner, Head(parts))
    ELSE check_parts(inner, Tail(parts))

\* handle_identifier: splitters; "backtick" stands for the grave accent
Splitters ==
    {" ", "_", "-", "(", ")", "{", "}", "[", "]", ",", ".", ";", ":", "?", "!",
     "\"", "'", "&", "/", "|", "<", ">", "=", "+", "*", "%", "^", "~",
     "backtick", "@", "#", "$", "1", "2", "3", "4", "5", "6", "7", "8", "9", "0", "\\"}

\* word.split(|c| splitters.contains(&c))
RECURSIVE split_acc(_, _, _)
split_acc(word, current, parts) ==
    IF Len(word) = 0 THEN Append(parts, current)
    ELSE IF Head(word) \in Splitters
    THEN split_acc(Tail(word), <<>>, Append(parts, current))
    ELSE split_acc(Tail(word), Append(current, Head(word)), parts)

split(word) == split_acc(word, <<>>, <<>>)

\* the shortest part handle_identifier keeps is longer than this
MinPartLen == 3

\* handle_identifier: .filter(|part| part.len() > 3)
filter_parts(parts) == SelectSeq(parts, LAMBDA part : Len(part) > MinPartLen)

\* MultiTrie::handle_identifier
handle_identifier(inner, word) == check_parts(inner, filter_parts(split(word)))

WordHello == <<"h", "e", "l", "l", "o">>

WordWorld == <<"w", "o", "r", "l", "d">>

WordHttp == <<"h", "t", "t", "p">>

\* the rule lists the members of the model are compiled from
MemberRules ==
    {<<Allow(WordHello), Allow(WordHttp)>>,
     <<Disallow(WordHello), Allow(WordWorld)>>}

\* the pieces the tokens of the model are put together from
Pieces ==
    {WordHello, <<"W", "o", "r", "l", "d">>, <<"W", "r", "l", "d">>, <<"_">>,
     <<"1", "2">>, <<"a", "b", "c">>}

RECURSIVE concat(_)
concat(ps) == IF Len(ps) = 0 THEN <<>> ELSE Head(ps) \o concat(Tail(ps))

\* the tokens of the test scenario
TokenHelloWorld == WordHello \o <<"W", "o", "r", "l", "d">>

TokenHelloWrld == WordHello \o <<"W", "r", "l", "d">>

\* the words MultiTrie::contains is asked for
WordsAsked == {WordHello, WordWorld, WordHttp}

MultiInit ==
    /\ members \in UNION {[1..k -> {trie_from(R) : R \in MemberRules}] :
                              k \in 0..MaxMembers}
    /\ token \in {concat(ps) : ps \in UNION {[1..k -> Pieces] : k \in 0..MaxPieces}}
    /\ found = [w \in WordsAsked |-> FALSE]
    /\ suspicious = None
    /\ mpc = "contains"

\* the values the multi-index variables keep while another part of the model
\* runs
MultiQuiet ==
    /\ members = <<>>
    /\ token = <<>>
    /\ found = [w \in WordsAsked |-> FALSE]
    /\ suspicious = None
    /\ mpc = "contains"

\* MultiTrie::contains, for every word asked
MultiContains ==
    /\ mpc = "contains"
    /\ found' = [w \in WordsAsked |-> multi_contains(members, w)]
    /\ mpc' = "identifier"
    /\ UNCHANGED <<members, token, suspicious>>
    /\ UNCHANGED multiRest

\* MultiTrie::handle_identifier(token)
HandleIdentifier ==
    /\ mpc = "identifier"
    /\ suspicious' = handle_identifier(members, token)
    /\ mpc' = "done"
    /\ UNCHANGED <<members, token, found>>
    /\ UNCHANGED multiRest

MultiNext == MultiContains \/ HandleIdentifier

(***************************************************************************)
(* The typos of a syntax node: handle_node and Typo::from_node of code.rs. *)
(***************************************************************************)
\* char::is_whitespace, for the characters of the model
Whitespace == {" "}

\* str::split_whitespace: the maximal runs without whitespace
RECURSIVE split_whitespace_acc(_, _, _)
split_whitespace_acc(text, current, parts) ==
    IF Len(text) = 0
    THEN IF Len(current) > 0 THEN Append(parts, current) ELSE parts
    ELSE IF Head(text) \in Whitespace
    THEN split_whitespace_acc(Tail(text), <<>>,
             IF Len(current) > 0 THEN Append(parts, current) ELSE parts)
    ELSE split_whitespace_acc(Tail(text), Append(current, Head(text)), parts)

split_whitespace(text) == split_whitespace_acc(text, <<>>, <<>>)

\* Node::end_byte
end_byte(node) == node.start_byte + Len(node.text)

\* Typo::from_node
from_node(w, node) ==
    [line |-> node.row + 1, column |-> node.column + 1,
     length |-> end_byte(node) - node.start_byte, word |-> w]

\* handle_node: the loop over text.split_whitespace()
RECURSIVE leaf_typos(_, _, _)
leaf_typos(inner, node, ws) ==
    IF Len(ws) = 0 THEN <<>>
    ELSE LET typo == IF Len(Head(ws)) > 1 THEN handle_identifier(inner, Head(ws))
                     ELSE None
             later == leaf_typos(inner, node, Tail(ws)) IN
         IF typo # None THEN <<from_node(typo[1], node)>> \o later ELSE later

\* Vec::dedup_by: of consecutive typos with the same word, line and column
\* the first is kept
RECURSIVE dedup_by(_)
dedup_by(ts) ==
    IF Len(ts) <= 1 THEN ts
    ELSE LET front == dedup_by(SubSeq(ts, 1, Len(ts) - 1))
             a == ts[Len(ts)]
             b == front[Len(front)] IN
         IF a.word = b.word /\ a.line = b.line /\ a.column = b.column
         THEN front ELSE Append(front, a)

\* handle_node of a node without children
handle_node(inner, node) ==
    dedup_by(IF node.is_named THEN leaf_typos(inner, node, split_whitespace(node.text))
             ELSE <<>>)

\* the dictionary set the nodes of the model are checked against
TypoMembers == <<trie_from(<<Allow(WordHello)>>)>>

\* the pieces the texts of the nodes are put together from
TextPieces ==
    {WordHello, <<"w", "r", "l", "d">>, <<"W", "r", "l", "d">>, <<" ">>, <<"_">>}

TypoInit ==
    /\ leaf \in {[is_named |-> n, row |-> r, column |-> c, start_byte |-> r + c + b,
                   text |-> concat(ps)] :
                      n \in BOOLEAN, r \in 0..MaxPosition, c \in 0..MaxPosition,
                      b \in 0..1, ps \in UNION {[1..k -> TextPieces] : k \in 1..MaxPieces}}
    /\ typos = <<>>
    /\ tpc = "node"

\* the values these variables keep while another part of the model runs
TypoQuiet ==
    /\ leaf = [is_named |-> FALSE, row |-> 0, column |-> 0, start_byte |-> 0,
               text |-> <<>>]
    /\ typos = <<>>
    /\ tpc = "node"

\* handle_node(words, node, source_code)
HandleNode ==
    /\ tpc = "node"
    /\ typos' = handle_node(TypoMembers, leaf)
    /\ tpc' = "done"
    /\ UNCHANGED leaf
    /\ UNCHANGED typoRest

TypoNext == HandleNode

(***************************************************************************)
(* The specifications.                                                     *)
(***************************************************************************)
InitDecoder ==
    DecoderInit /\ CacheQuiet /\ PipelineQuiet /\ HeaderQuiet
        /\ IndexQuiet /\ MultiQuiet /\ TypoQuiet

SpecDecoder == InitDecoder /\ [][DecoderNext]_vars

InitCache ==
    CacheInit /\ DecoderQuiet /\ PipelineQuiet /\ HeaderQuiet
        /\ IndexQuiet /\ MultiQuiet /\ TypoQuiet

SpecCache == InitCache /\ [][CacheNext]_vars

SpecCacheTwice == InitCache /\ [][CacheTwiceNext]_vars

InitPipeline ==
    PipelineInit /\ DecoderQuiet /\ CacheQuiet /\ HeaderQuiet
        /\ IndexQuiet /\ MultiQuiet /\ TypoQuiet

SpecPipeline == InitPipeline /\ [][PipelineNext]_vars

\* the runtime and the operating system run every task and thread that can
\* take a step
FairPipeline == SpecPipeline /\ WF_vars(PipelineNext)

\* the same scheduling, with a grammar parser that may hang
FairPipelineHang == InitPipeline /\ [][PipelineHangNext]_vars /\ WF_vars(PipelineHangNext)

InitHeader ==
    HeaderInit /\ DecoderQuiet /\ CacheQuiet /\ PipelineQuiet
        /\ IndexQuiet /\ MultiQuiet /\ TypoQuiet

SpecHeader == InitHeader /\ [][HeaderNext]_vars

InitIndex ==
    IndexInit /\ DecoderQuiet /\ CacheQuiet /\ PipelineQuiet /\ HeaderQuiet
        /\ MultiQuiet /\ TypoQuiet

SpecIndex == InitIndex /\ [][IndexNext]_vars

InitMulti ==
    MultiInit /\ DecoderQuiet /\ CacheQuiet /\ PipelineQuiet /\ HeaderQuiet
        /\ IndexQuiet /\ TypoQuiet

SpecMulti == InitMulti /\ [][MultiNext]_vars

InitTypo ==
    TypoInit /\ DecoderQuiet /\ CacheQuiet /\ PipelineQuiet /\ HeaderQuiet
        /\ IndexQuiet /\ MultiQuiet

SpecTypo == InitTypo /\ [][TypoNext]_vars

(***************************************************************************)
(* Claims about the decoder.                                               *)
(***************************************************************************)
\* the step took the body character ch
Took(ch) == consumed' = Append(consumed, ch)

\* the decoder is running the fixed body b, at any point of it
Decoding(b) == ~free /\ consumed \o rest = b

\* the decoder has produced a result for the fixed body b
Decoded(b) == Decoding(b) /\ output.kind # "pending"

EowFlags(ns) == [i \in 1..Len(ns) |-> ns[i].eow]

\* the number of elements a character read in Remove asks to pop
PopsAsked(ch) == IF is_numeric(ch) THEN to_digit(ch, 10) - 1 ELSE 1

\* C4: while decoding has not been aborted, pos is not empty and starts at
\* the root; a character read in Remove whose pops would leave pos empty
\* aborts decoding.
C4_PosNeverEmpty ==
    /\ [](fault = "none" => Len(pos) >= 1 /\ pos[1] = 0)
    /\ [][\A ch \in Alphabet \cup {"b", "c", "d", "n", "w", "5", "4"} :
            (Took(ch) /\ state = "Remove" /\ PopsAsked(ch) >= Len(pos))
                => (fault' # "none" /\ output' = Pending)]_vars

\* C4 witness: a digit in Remove asked for more pops than pos could give
C4_Witness ==
    /\ consumed = <<"a", "$", "3">>
    /\ fault = "No more nodes in path"
    /\ output = Pending

\* C5: `$` in InWord marks the top of pos and nothing else and enters
\* Remove; a non-digit character in Remove acts as one pop followed by that
\* character in InWord; the body a$b$c$ decodes to exactly {a, b, c}.
C5_MarkAndRedispatch ==
    /\ [](Decoded(BodyWordEnd) =>
            /\ output.kind = "trie"
            /\ WordSet(output) = {<<"a">>, <<"b">>, <<"c">>})
    /\ [][/\ (Took("$") /\ state = "InWord") =>
               /\ nodes' = [nodes EXCEPT ![Last(pos) + 1].eow = TRUE]
               /\ pos' = pos
               /\ state' = "Remove"
               /\ fault' = "none"
          /\ \A ch \in CharSet \ {"\n"} :
               (Took(ch) /\ state = "Remove" /\ ~is_numeric(ch) /\ Len(pos) >= 2)
                   => Machine' = process_in_word(
                                     [Machine EXCEPT !.pos = Front(@, 1),
                                                     !.pos_string = PopStr(@),
                                                     !.state = "InWord"], ch)
         ]_vars

\* C5 witness: the three sibling words have been decoded
C5_Witness == Decoded(BodyWordEnd) /\ Len(output.words) = 3

\* C6: a digit d of 2..9 in Remove pops d - 1 elements of pos, changes no
\* node and stays in Remove; the body a$word$<3no$ decodes to {a, no, word}.
C6_DigitPops ==
    /\ [](Decoded(BodyRemove) =>
            /\ output.kind = "trie"
            /\ WordSet(output) = {<<"a">>, <<"n", "o">>, <<"w", "o", "r", "d">>})
    /\ [][\A d \in 2..9 :
            (Took(DecimalDigits[d + 1]) /\ state = "Remove" /\ d - 1 < Len(pos))
                => /\ pos' = SubSeq(pos, 1, Len(pos) - (d - 1))
                   /\ nodes' = nodes
                   /\ state' = "Remove"
                   /\ fault' = "none"]_vars

\* C6 witness: the body with the digit pop has been decoded
C6_Witness == Decoded(BodyRemove) /\ Len(output.words) = 3

\* C7: the character after a backslash becomes a child edge of the current
\* node whatever it is: no node is marked, nothing is popped, no reference is
\* begun, and the state is InWord again; the body a\$b$c$<2def$ decodes to a
\* set with a$b, a$c and def and without a.
C7_EscapeIsLiteral ==
    /\ [](Decoded(BodyEscape) =>
            /\ output.kind = "trie"
            /\ {<<"a", "$", "b">>, <<"a", "$", "c">>, <<"d", "e", "f">>}
                   \subseteq WordSet(output)
            /\ <<"a">> \notin WordSet(output))
    /\ [][\A ch \in CharSet \ {"\n"} :
            (Took(ch) /\ state = "Escape")
                => /\ fault' = "none"
                   /\ state' = "InWord"
                   /\ Len(pos') = Len(pos) + 1
                   /\ SubSeq(pos', 1, Len(pos)) = pos
                   /\ <<ch, Last(pos')>> \in NodeAt(nodes', Last(pos)).children
                   /\ SubSeq(EowFlags(nodes'), 1, Len(nodes)) = EowFlags(nodes)
                   /\ \A i \in 1..Len(nodes') : i > Len(nodes) => ~nodes'[i].eow]_vars

\* C7 witness: the body with the escaped `$` has been decoded
C7_Witness == Decoded(BodyEscape) /\ <<"a", "$", "b">> \in WordSet(output)

\* the words test_parse_body_absolute_reference expects
WordsReference ==
    {<<"a", "n">>, <<"a", "p", "p", "l", "e">>, <<"b", "a", "n", "b", "n">>,
     <<"b", "a", "n", "b", "p", "p", "l", "e">>}

\* the words test_parse_body_absolute_reference_3 expects
WordsReference3 ==
    {<<"'", "c", "a", "u", "s", "e">>, <<"'", "s", "u", "p">>,
     <<"'", "t", "i", "s">>, <<"'", "t", "w", "a", "s">>, <<"0">>,
     <<"0", "t", "h">>, <<"1">>, <<"1", "s", "t">>, <<"2">>,
     <<"2", "n", "d">>, <<"3", "r", "d">>}

\* the index a finished reference names, -1 when its digits do not parse
ReferenceIndex == from_str_radix(Tail(chars), header_base)

\* C8: a reference #n; to an existing node n re-links the edge that led to
\* the current node to node n, so that the words below n are decoded below
\* the path as well; the body apple$<<<n$<banb#1; decodes to exactly
\* {an, apple, banbn, banbpple}.
C8_ReferenceAliases ==
    /\ [](Decoding(BodyReference) =>
            /\ fault = "none"
            /\ output.kind # "pending" =>
                 /\ output.kind = "trie"
                 /\ WordSet(output) = WordsReference)
    /\ [][(Took(";") /\ state = "AbsoluteReference" /\ Len(pos) >= 2
              /\ ReferenceIndex >= 0 /\ ReferenceIndex < Len(nodes))
            => /\ fault' = "none"
               /\ \A e \in NodeAt(nodes, pos[Len(pos) - 1]).children :
                     e[2] = Last(pos) =>
                         <<e[1], ReferenceIndex>>
                             \in NodeAt(nodes', pos[Len(pos) - 1]).children]_vars

\* C9: the body of test_parse_body_absolute_reference_3 decodes in base 32
\* without a fault to exactly its eleven words.
C9_Reference3Words ==
    Decoding(BodyReference3) =>
        /\ fault = "none"
        /\ output.kind # "pending" =>
             /\ output.kind = "trie"
             /\ WordSet(output) = WordsReference3

\* C10: a reference aborts decoding exactly when its index is not that of a
\* node of the arena.
C10_ReferenceAbortsIffOutOfRange ==
    /\ []((state = "AbsoluteReference" /\ fault # "none" /\ ReferenceIndex >= 0)
            => ReferenceIndex >= Len(nodes))
    /\ [][(Took(";") /\ state = "AbsoluteReference" /\ ReferenceIndex >= Len(nodes))
            => (fault' # "none" /\ nodes' = nodes)]_vars

\* C29: on `;` in AbsoluteReference with digits that denote idx, a node of
\* the arena, in the header's base, the decoder pushes nodes[idx] onto pos
\* (pos grows by exactly one and its new top is nodes[idx]), leaves the arena
\* and every node's children and eow flag as they are, and returns to InWord.
C29_ReferencePushesNode ==
    [][LET idx == from_str_radix(Tail(chars), header_base) IN
       (Took(";") /\ state = "AbsoluteReference" /\ idx >= 0 /\ idx < Len(nodes))
           => /\ fault' = "none"
              /\ pos' = Append(pos, idx)
              /\ nodes' = nodes
              /\ state' = "InWord"]_vars

\* the characters that are added as a child edge when read in InWord
Ordinary == CharSet \ {"\n", "\\", "$", "<", "#"}

\* child-descent on ch from the top of the path p: the child that is there
\* is pushed, or one new empty node is appended, linked under ch and pushed;
\* no other node changes
DescentFrom(p, ch) ==
    LET cur == Last(p) IN
    /\ fault' = "none"
    /\ IF HasChild(NodeAt(nodes, cur), ch)
       THEN /\ nodes' = nodes
            /\ pos' = Append(p, ChildOf(NodeAt(nodes, cur), ch))
       ELSE /\ Len(nodes') = Len(nodes) + 1
            /\ NodeAt(nodes', Len(nodes)) = [eow |-> FALSE, children |-> {}]
            /\ NodeAt(nodes', cur).children =
                   NodeAt(nodes, cur).children \cup {<<ch, Len(nodes)>>}
            /\ NodeAt(nodes', cur).eow = NodeAt(nodes, cur).eow
            /\ \A i \in 0..(Len(nodes) - 1) :
                   i # cur => NodeAt(nodes', i) = NodeAt(nodes, i)
            /\ pos' = Append(p, Len(nodes))

\* C30: child-descent on a character from the current node pushes the child
\* keyed by it and leaves the arena alone, or, when there is none, appends
\* exactly one new node with eow false and no children, links it under the
\* character in the current node and pushes it; pos grows by exactly one and
\* no other node's children or eow flag changes.  The descents are an
\* ordinary character in InWord, any character in Escape, and an ordinary
\* character after the one pop of Remove.
C30_ChildDescent ==
    [][/\ \A ch \in Ordinary : (Took(ch) /\ state = "InWord") => DescentFrom(pos, ch)
       /\ \A ch \in CharSet \ {"\n"} :
              (Took(ch) /\ state = "Escape") => DescentFrom(pos, ch)
       /\ \A ch \in Ordinary :
              (Took(ch) /\ state = "Remove" /\ ~is_numeric(ch) /\ Len(pos) >= 2)
                  => DescentFrom(Front(pos, 1), ch)]_vars

\* C30 witness: a is read twice from the root: the first descent made node
\* 1, the second pushed it again
C30_Witness ==
    /\ consumed = <<"a", "<", "a">>
    /\ fault = "none"
    /\ Len(nodes) = 2
    /\ pos = <<0, 1>>

\* the pairs <<word, node>> of the paths of exactly k child edges from the
\* root
RECURSIVE PathsOfLength(_, _)
PathsOfLength(ns, k) ==
    IF k = 0 THEN {<<<<>>, 0>>}
    ELSE UNION {{<<Append(p[1], e[1]), e[2]>> : e \in NodeAt(ns, p[2]).children} :
                    p \in PathsOfLength(ns, k - 1)}

\* the words whose characters lead from the root to a node with eow set; in
\* a graph without a cycle no path has more edges than there are nodes
MarkedWords(ns) ==
    {p[1] : p \in {q \in UNION {PathsOfLength(ns, k) : k \in 0..Len(ns)} :
                      NodeAt(ns, q[2]).eow}}

\* u comes before v in the lexicographic order of the characters
LexLess(u, v) ==
    \/ Len(u) < Len(v) /\ SubSeq(v, 1, Len(u)) = u
    \/ \E k \in 1..Len(u) :
          /\ k <= Len(v)
          /\ SubSeq(u, 1, k - 1) = SubSeq(v, 1, k - 1)
          /\ CharCode(u[k]) < CharCode(v[k])

\* C31: after the body is exhausted the produced word-index contains a word
\* exactly when its characters lead from the root to a node with eow set, and
\* the conversion emits the words in strictly increasing lexicographic order,
\* each once, also when subtrees are shared through absolute references.
C31_ConversionEmitsMarkedWordsInOrder ==
    output.kind = "trie" =>
        /\ WordSet(output) = MarkedWords(nodes)
        /\ \A i, j \in 1..Len(output.words) :
               i < j => LexLess(output.words[i], output.words[j])

\* C31 witness: the words ax and bx share the subtree of node 1 after the
\* reference, and both have been emitted
C31_Witness ==
    /\ Decoded(BodyShared)
    /\ output.kind = "trie"
    /\ output.words = <<<<"a", "x">>, <<"b", "x">>>>
    /\ <<"a", 1>> \in NodeAt(nodes, 0).children
    /\ <<"b", 1>> \in NodeAt(nodes, 0).children

\* the characters that end a line
LineEnds == {"\n", "\r"}

\* C32: line-feed and carriage-return characters in the body are skipped in
\* every parse state: reading one leaves the parse state, pos, the arena and
\* all nodes unchanged, and neither character ever becomes a trie edge.
C32_LineEndsSkipped ==
    /\ [][\A ch \in LineEnds :
             Took(ch) => UNCHANGED <<nodes, pos, state, chars, fault>>]_vars
    /\ [](\A i \in 1..Len(nodes) : \A e \in nodes[i].children : e[1] \notin LineEnds)

\* the digits smaller than 2
SmallDigits == {"0", "1"}

\* C33: a digit smaller than 2 read in Remove aborts decoding: it pops
\* nothing (a pop count wrapped around 2^32 would pop), and decoding that
\* was aborted never goes on to a word set.
C33_SmallDigitAborts ==
    /\ [][\A ch \in SmallDigits :
             (Took(ch) /\ state = "Remove")
                 => /\ fault' # "none"
                    /\ pos' = pos /\ pos_string' = pos_string
                    /\ output' = Pending]_vars
    /\ [](fault # "none" => output = Pending)

\* C39: the graph the decoder builds has no cycle of child edges while
\* decoding has not been aborted, also after an absolute reference to the
\* root or to another ancestor of the current node; the conversion of an
\* accepted body ends with a word-index and never at its depth assertion.
C39_GraphAcyclic ==
    /\ fault = "none" => ~Cyclic(nodes)
    /\ output # Pending => output.kind = "trie"

\* C40: while decoding has not been aborted the current node, the top of
\* pos, is reachable from the root through child edges, also right after an
\* absolute reference; no word marked in the body is dropped: in a decoded
\* body every node marked end-of-word is reachable from the root.
C40_CurrentNodeReachable ==
    /\ (fault = "none" /\ Len(pos) > 0) => Last(pos) \in Reachable(nodes, {0})
    /\ output.kind = "trie" =>
           \A i \in 1..Len(nodes) : nodes[i].eow => (i - 1) \in Reachable(nodes, {0})

(***************************************************************************)
(* Claims about the dictionary cache.                                      *)
(***************************************************************************)
\* C2: whenever the store maps a dictionary's path_hash to the hash of what
\* the dictionary file now holds, the artifact of that dictionary holds the
\* word-index (words and options) a compile of the file now produces.
C2_CacheCorrect ==
    \A d \in Dicts :
        (store_get(store, path_hash(d)) = get_path_hash(source[d])
            /\ artifact[d] # NoFile)
        => trie_load(artifact[d]).trie = trie_from(source[d])

\* C3: a finished compile returned the cached artifact only if the entry it
\* read from the store equals the hash it computed and it saw the artifact
\* exist; with no entry, another hash or no artifact it read the source and
\* returned the word-index compiled from it.
C3_CacheUsedOnlyOnHit ==
    \A i \in Invocations :
        cpc[i] = "done" =>
            LET l == clocal[i]
                miss == \/ l.entry = NoHash
                        \/ l.entry # l.load_fs_hash
                        \/ ~l.exists
            IN /\ l.result.kind = "cached" => (~miss /\ ~l.read)
               /\ miss => /\ l.read
                          /\ l.result.kind = "compiled"
                          /\ l.result.trie = trie_from(l.rules)

\* C3 witness: a compile has returned the cached artifact
C3_Witness ==
    \E i \in Invocations :
        /\ cpc[i] = "done"
        /\ clocal[i].result.kind = "cached"
        /\ clocal[i].entry = clocal[i].load_fs_hash

\* C20: a failure to read, decode or write the cache is treated as a cache
\* miss: a compile that has returned has returned a word-index and no error,
\* and that word-index comes from the cache only when the artifact was read.
C20_CacheFailureIsMiss ==
    \A i \in Invocations :
        cpc[i] = "done" =>
            /\ clocal[i].result.kind \in {"cached", "compiled"}
            /\ clocal[i].result.kind = "cached" =>
                   clocal[i].exists /\ ~clocal[i].read

\* two invocations have both compiled the unchanged dictionary d and saved
\* it, with no `cache clear` in between
BothCompiled(i, j, d) ==
    /\ i # j
    /\ cpc[i] = "done" /\ cpc[j] = "done"
    /\ clocal[i].path = d /\ clocal[j].path = d
    /\ clocal[i].result.kind = "compiled" /\ clocal[j].result.kind = "compiled"
    /\ edits = 0
    /\ cleared = {}

\* C23: two invocations that compile and cache the same unchanged dictionary
\* concurrently converge: once both have finished, the store maps the
\* dictionary's path_hash to the content hash of the source and the artifact
\* decodes to the compiled word-index.
C23_ConcurrentCompilesConverge ==
    \A i, j \in Invocations, d \in Dicts :
        BothCompiled(i, j, d) =>
            /\ store_get(store, path_hash(d)) = get_path_hash(source[d])
            /\ trie_load(artifact[d]) = [ok |-> TRUE, trie |-> trie_from(source[d])]

\* C23 witness: both invocations missed the cache of the same dictionary,
\* compiled it and saved it
C23_Witness ==
    \E i, j \in Invocations, d \in Dicts :
        /\ BothCompiled(i, j, d)
        /\ clocal[i].read /\ clocal[j].read
        /\ clocal[i].entry = NoHash /\ clocal[j].entry = NoHash

\* invocation i has returned from a compile that missed the cache and built
\* a word-index whose options allow caching
MissedAndCached(i) ==
    /\ cpc[i] = "done"
    /\ clocal[i].read
    /\ clocal[i].result.kind = "compiled"
    /\ clocal[i].result.trie.options.cache

\* C35: after a compile of a cache-eligible File dictionary that missed the
\* cache, the store holds path_hash -> hash of the source and the artifact
\* exists; a compile of the unchanged source that follows is a cache hit
\* with the same words and options; only a compile whose options have
\* cache = true changes the store or an artifact.
C35_HitAfterMiss ==
    /\ [](\A i \in Invocations :
             MissedAndCached(i) =>
                 /\ store_get(store, path_hash(clocal[i].path))
                        = get_path_hash(source[clocal[i].path])
                 /\ artifact[clocal[i].path] # NoFile)
    /\ [][\A i, j \in Invocations :
             (/\ i # j /\ MissedAndCached(i)
              /\ clocal[j].path = clocal[i].path
              /\ cpc[j] # "done" /\ cpc'[j] = "done")
                 => /\ clocal'[j].result.kind = "cached"
                    /\ clocal'[j].result.trie = clocal[i].result.trie]_vars
    /\ [][(store' # store \/ artifact' # artifact)
             => \E i \in Invocations :
                    /\ cpc'[i] # cpc[i]
                    /\ clocal[i].read /\ clocal[i].trie.options.cache]_vars

\* C35 witness: the second compile of a dictionary with a disallowed word
\* came from the cache, and a dictionary with cache:false left no entry
C35_Witness ==
    /\ MissedAndCached("i1")
    /\ clocal["i1"].path = "en.txt"
    /\ source["en.txt"] = <<Allow("foo"), Disallow("bar")>>
    /\ cpc["i2"] = "done"
    /\ clocal["i2"].path = "en.txt"
    /\ clocal["i2"].result = [kind |-> "cached", trie |-> clocal["i1"].result.trie]
    /\ <<"bar", TRUE>> \in clocal["i2"].result.trie.entries

\* a dictionary with cache:false was compiled after a cached one and the
\* store and the artifacts are those of the first compile
C35_WitnessNoCache ==
    /\ MissedAndCached("i1")
    /\ clocal["i1"].path = "en.txt"
    /\ cpc["i2"] = "done"
    /\ clocal["i2"].path = "rust.txt"
    /\ clocal["i2"].result.kind = "compiled"
    /\ ~clocal["i2"].result.trie.options.cache
    /\ store = {<<path_hash("en.txt"), get_path_hash(source["en.txt"])>>}
    /\ artifact["rust.txt"] = NoFile

\* the store has an entry for the dictionary at path p
HasEntry(p) == \E e \in store : e[1] = path_hash(p)

\* C38: no store entry is lost when two invocations cache different
\* dictionaries concurrently: once both save_to_cache calls have returned
\* (and nothing was cleared) the store has the entry of each.
C38_NoEntryLost ==
    (/\ MissedAndCached("i1") /\ MissedAndCached("i2")
     /\ clocal["i1"].path # clocal["i2"].path
     /\ cleared = {})
        => (HasEntry(clocal["i1"].path) /\ HasEntry(clocal["i2"].path))

(***************************************************************************)
(* Claims about the check pipeline.                                        *)
(***************************************************************************)
\* the run is over: check() has returned Ok or Err
RunOver == mainPc \in {"done", "failed"}

\* C1: in a run that discovers at least one file, with at least one worker,
\* whatever the number of files (more than FileQueueCap included), the sink
\* eventually receives a result; discovery, compilation and dispatch never
\* deadlock.  A run that ends with an error (a dictionary that does not
\* compile, a file a worker cannot read) is not held against the claim.
C1_PipelineProgress ==
    (numFiles >= 1 /\ Workers # {}) ~> (counter >= 1 \/ mainPc = "failed")

\* the files whose handling hit an error: handle_file returns at its first
\* error, so each failed worker stands for one such file
FailedFiles == Cardinality({w \in Workers : wpc[w] = "failed"})

\* C18: an error while one file is handled does not abort the run: when the
\* run is over and the dictionaries were compiled, every discovered file other
\* than the ones that hit an error has produced its result at the sink.
C18_FileErrorKeepsOtherFiles ==
    (RunOver /\ dictPc = "ok") => counter + FailedFiles = numFiles

\* the dictionaries whose compile succeeds
Compilable == {d \in DictionaryNames : compiles[d]}

\* C19: a failure to compile one dictionary aborts only that dictionary: when
\* the loader is over, the name map holds exactly the dictionaries that
\* compile, and a run that found files never ends before its workers are
\* dispatched.
C19_DictionaryFailureIsLocal ==
    /\ dictPc # "running" => dictionaries = Compilable
    /\ (numFiles >= 1 /\ mainPc = "failed") => \E w \in Workers : wpc[w] # "unspawned"

\* the language dictionary a file's extension asks for
LanguageDictionary(ext) ==
    CASE ext = "c" -> {"c"}
      [] ext = "cpp" -> {"cpp"}
      [] ext = "rs" -> {"rust"}
      [] ext = "py" -> {"python"}
      [] OTHER -> {}

\* the names a worker needs for the file it handles
NeededNames(w) ==
    {base_dictionaries[k] : k \in 1..Len(base_dictionaries)}
        \cup LanguageDictionary(wfile[w])

\* C21: when a worker has built the dictionary set of a file, a needed name
\* (a base dictionary, or the language dictionary of the extension) that is
\* not in the name map gives an error that ends the handling of the file; a
\* file is parsed and checked only with every needed dictionary in its set.
C21_MissingDictionaryIsHardError ==
    \A w \in Workers :
        /\ (wtrie[w] # NoMultiTrie /\ ~(NeededNames(w) \subseteq dictionaries)) =>
               wtrie[w].kind = "err" /\ wpc[w] = "failed"
        /\ wpc[w] \in {"parse", "send"} =>
               /\ wtrie[w].kind = "ok"
               /\ NeededNames(w) \subseteq
                      {wtrie[w].inner[k] : k \in 1..Len(wtrie[w].inner)}

\* C21 witness: a worker has failed on a file whose language dictionary is
\* not in the name map
C21_Witness ==
    \E w \in Workers :
        /\ wpc[w] = "failed"
        /\ wtrie[w].kind = "err"
        /\ wtrie[w].name \in LanguageDictionary(wfile[w])

\* C22: shutdown is bounded: a worker that never finishes does not keep
\* check() from returning; check() abandons it and ends the run.
C22_ShutdownBounded ==
    (\E w \in Workers : wpc[w] = "hung") ~> RunOver

\* C25: worker start does not wait for the discovery task to finish: once the
\* dictionaries are compiled and discovery has enqueued a file and has more
\* to enqueue, check() can go on to start the workers, so that a worker can
\* dequeue a file while discovery is still enqueueing later ones.
C25_WorkersStartDuringDiscovery ==
    (mainPc = "join" /\ dictPc = "ok" /\ sent >= 1 /\ sent < numFiles) =>
        ENABLED MainJoin

\* C26: no worker looks up a dictionary in the name map before the
\* dictionary-compilation task has completed successfully: a worker that is
\* about to run get_multi_trie, or has run it, does so after the loader's
\* last insert and its Ok(()).
C26_LookupAfterLoader ==
    \A w \in Workers :
        (wpc[w] = "get_multi_trie" \/ wtrie[w] # NoMultiTrie) =>
            /\ dictPc = "ok"
            /\ dictNext > Len(GetDictionaries)

\* C26 witness: a worker has looked its dictionaries up
C26_Witness ==
    \E w \in Workers : wtrie[w] # NoMultiTrie /\ wtrie[w].kind = "ok" /\ dictPc = "ok"

\* C27: a worker leaves its loop exactly when the file queue is closed and
\* drained: while the queue holds a file or discovery still holds the sender
\* no worker has exited normally, and once discovery has dropped the sender
\* and the last file is dequeued every worker that was started eventually
\* returns.
C27_WorkerExitsWhenClosedAndDrained ==
    /\ []((fileQueue > 0 \/ loaderPc = "walking") =>
              \A w \in Workers : wpc[w] # "exited")
    /\ (loaderPc = "done" /\ fileQueue = 0 /\ \A w \in Workers : wpc[w] # "unspawned")
           ~> (\A w \in Workers : Returned(w))

\* C27 witness: every file was dequeued and handled, and every worker has
\* left its loop by recv() giving None
C27_Witness ==
    /\ numFiles >= 2
    /\ taken = numFiles
    /\ loaderPc = "done"
    /\ \A w \in Workers : wpc[w] = "exited"

\* C28: the name map is written only by the dictionary-compilation task:
\* once that task has completed, no step of a worker or of the sink inserts,
\* replaces or removes an entry.
C28_NameMapReadOnlyAfterLoader ==
    [][dictPc # "running" => dictionaries' = dictionaries]_vars

\* C28 witness: the loader has filled the map, and a worker has looked a
\* missing name up and another worker has had its result received
C28_Witness ==
    /\ dictPc = "ok"
    /\ dictionaries = DictionaryNames
    /\ counter >= 1
    /\ \E w \in Workers : wtrie[w] # NoMultiTrie /\ wtrie[w].kind = "err"

\* the files whose results are in the result channel or at the sink
Delivered == results \o received

PastSink == mainPc \in {"join_threads", "done", "failed"}

\* C37: once every worker has returned, normally or with an error, the sink
\* loop ends and check goes on to join the workers; the result channel
\* closes only when the last worker has dropped its sender and nothing is
\* left in it; the main task holds no sender while it receives; a worker
\* that sends while the sink receives gets its result into the channel.
C37_SinkEndsAfterWorkers ==
    /\ ((mainPc \in {"drop", "sink"} /\ \A w \in Workers : Returned(w)) ~> PastSink)
    /\ [][(mainPc = "sink" /\ mainPc' # "sink")
             => /\ mainPc' = "join_threads"
                /\ \A w \in Workers : Returned(w)
                /\ resQueue = 0]_vars
    /\ [](mainPc = "sink" => ~mainSender)
    /\ \A w \in Workers : ((wpc[w] = "send" /\ mainPc = "sink") ~> wpc[w] # "send")

\* C37 witness: one worker returned an error, the other left its loop, and
\* the sink loop has ended after it received a result
C37_Witness ==
    /\ mainPc = "join_threads"
    /\ wpc["w1"] = "failed"
    /\ wpc["w2"] = "exited"
    /\ counter >= 1
    /\ ~mainSender

(***************************************************************************)
(* Claims about the header.                                                *)
(***************************************************************************)
\* the lines equal to the sentinel
SentinelLines == {i \in 1..Len(input) : input[i] = Sentinel}

FirstSentinel == CHOOSE i \in SentinelLines : \A j \in SentinelLines : i <= j

\* the last line before line k that starts with prefix p, without the prefix
LastBefore(k, p) ==
    LET is == {i \in 1..(k - 1) : starts_with(input[i], p)} IN
    strip_prefix(input[CHOOSE i \in is : \A j \in is : j <= i], p)

\* C11: parse_header consumes the lines up to and including the first line
\* equal to __DATA__ and returns the index of the first body line with the
\* version and base of the lines before it (3, 4 and 10 for the input of
\* test_parse_header); only a line equal to the sentinel ends the header, and
\* without one decoding is aborted and gives no word set.
C11_HeaderEndsAtSentinel ==
    /\ (hpc \in {"parsed", "done"} /\ SentinelLines # {}) =>
          /\ header_counter = FirstSentinel
          /\ parsed_version = Some(LastBefore(FirstSentinel, PrefixTrieXv))
          /\ parsed_base = Some(parse_u8(LastBefore(FirstSentinel, PrefixBase)))
    /\ (hpc \in {"parsed", "done"} /\ input = InputTestHeader) =>
          /\ header_counter = 3
          /\ to_u8(parsed_version[1]) = 4
          /\ parsed_base[1] = 10
    /\ (SentinelLines = {}) => (hpc # "done" /\ parsed.kind # "trie")

(***************************************************************************)
(* Claims about the word-index.                                            *)
(***************************************************************************)
\* the words asked for
QueryWords == {WordBar, WordBarLower}

\* the folding of the dictionary: none when a CaseSensitive command is among
\* the rules, lowercase otherwise
CaseFold(w, R) ==
    IF \E i \in 1..Len(R) : R[i] = CommandCaseSensitive THEN w
    ELSE to_ascii_lowercase(w)

\* rule i of R is the rule `kind` for the word w, after case-folding
RuleFor(R, i, kind, w) == R[i].kind = kind /\ CaseFold(R[i].word, R) = w

\* C12: contains(w) is true iff the rule list has an Allow rule for w (after
\* case-folding) that no Disallow rule for w follows.
C12_ContainsIffAllowNotDisallowedLater ==
    ipc = "done" =>
        \A w \in QueryWords :
            trie_contains(index, w) <=>
                \E i \in 1..Len(dict_rules) :
                    /\ RuleFor(dict_rules, i, "Allow", w)
                    /\ \A j \in (i + 1)..Len(dict_rules) :
                           ~RuleFor(dict_rules, j, "Disallow", w)

\* the rule list has both Allow(w) and Disallow(w)
AllowedAndDisallowed(w) ==
    /\ \E i \in 1..Len(dict_rules) : dict_rules[i] = Allow(w)
    /\ \E i \in 1..Len(dict_rules) : dict_rules[i] = Disallow(w)

\* the last of the Allow and Disallow rules for w
LastRuleFor(w) ==
    LET is == {i \in 1..Len(dict_rules) : dict_rules[i] \in {Allow(w), Disallow(w)}}
    IN dict_rules[CHOOSE i \in is : \A j \in is : j <= i]

\* C13 as stated: with both Allow(w) and Disallow(w) among the rules, in
\* either order, contains(w) is false.
C13_DisallowShadows ==
    ipc = "done" =>
        \A w \in QueryWords : AllowedAndDisallowed(w) => ~trie_contains(index, w)

\* C13 as amended: with both Allow(w) and Disallow(w) among the rules, the
\* last of them decides; contains(w) is false exactly when it is the Disallow.
C13_LastRuleDecides ==
    ipc = "done" =>
        \A w \in QueryWords :
            AllowedAndDisallowed(w) =>
                (trie_contains(index, w) <=> LastRuleFor(w) = Allow(w))

C13_Witness ==
    /\ ipc = "done"
    /\ dict_rules = <<Disallow(WordBarLower), Allow(WordBarLower), Disallow(WordBarLower)>>
    /\ ~trie_contains(index, WordBarLower)

\* C14: without a CaseSensitive command every rule word is stored
\* lowercase-folded; with one the words keep their case, also in a dictionary
\* loaded from a file with a `csc:case-sensitive` line, where the line Bar
\* gives contains("Bar") and not contains("bar").
C14_CaseFoldingPerDictionary ==
    ipc = "done" =>
        /\ ~index.options.case_sensitive =>
              /\ \A e \in index.entries : e[1] = to_ascii_lowercase(e[1])
              /\ \A i \in 1..Len(dict_rules) :
                     dict_rules[i].kind \in {"Allow", "Disallow"} =>
                         \E e \in index.entries :
                             e[1] = to_ascii_lowercase(dict_rules[i].word)
        /\ (index.options.case_sensitive /\ dict_lines = <<>>) =>
              \A i \in 1..Len(dict_rules) :
                  dict_rules[i].kind \in {"Allow", "Disallow"} =>
                      \E e \in index.entries : e[1] = dict_rules[i].word
        /\ dict_lines = <<LineCaseSensitive, LineBar>> =>
              /\ trie_contains(index, WordBar)
              /\ ~trie_contains(index, WordBarLower)

\* the text of a comment line: what follows its `#` or `//`, or None for a
\* line that is not a comment
CommentText(line) ==
    LET t == trim(line) IN
    IF starts_with(t, <<"#">>) THEN Some(trim(strip_prefix(t, <<"#">>)))
    ELSE IF starts_with(t, <<"/", "/">>) THEN Some(trim(strip_prefix(t, <<"/", "/">>)))
    ELSE None

\* the command a comment text names after `csc:`, or None
CommandNamed(text) ==
    IF ~starts_with(text, StrCsc) THEN None
    ELSE LET w == trim(strip_prefix(text, StrCsc)) IN
         CASE w = StrCaseSensitive -> Some(CommandCaseSensitive)
           [] w = StrCache \o StrTrue -> Some(CommandCache(TRUE))
           [] w = StrCache \o StrFalse -> Some(CommandCache(FALSE))
           [] OTHER -> None

\* the line is a `#` or `//` comment whose text names a command
CommandLine(line) ==
    CommentText(line) # None /\ CommandNamed(CommentText(line)[1]) # None

\* the line is empty or a `#` or `//` comment that names no command
PlainLine(line) ==
    \/ Len(trim(line)) = 0
    \/ CommentText(line) # None /\ CommandNamed(CommentText(line)[1]) = None

\* C34: a `#` or `//` comment line whose text is `csc:` and a recognized
\* command is loaded as that Command rule; every other `#` or `//` line and
\* every empty line is loaded as a Comment and adds no word to the index.
C34_CommentAndCommandLines ==
    /\ (ipc # "load" /\ Len(dict_lines) > 0) =>
           \A i \in 1..Len(dict_lines) :
               /\ CommandLine(dict_lines[i]) =>
                      dict_rules[i] = CommandNamed(CommentText(dict_lines[i])[1])[1]
               /\ PlainLine(dict_lines[i]) => dict_rules[i].kind = "Comment"
    /\ (ipc = "done" /\ Len(dict_lines) > 0) =>
           index = trie_from(load_dictionary_format(
                                 SelectSeq(dict_lines, LAMBDA l : ~PlainLine(l))))

(***************************************************************************)
(* Claims about the multi-index.                                           *)
(***************************************************************************)
\* C15: MultiTrie::contains is a plain union: contains(w) is true iff at
\* least one member allows w, and a Disallow(w) entry of one member never
\* makes it false when another member, earlier or later, allows w.
C15_MultiContainsIsUnion ==
    mpc # "contains" =>
        \A w \in WordsAsked :
            /\ found[w] <=> \E i \in 1..Len(members) : trie_contains(members[i], w)
            /\ (\E i, j \in 1..Len(members) :
                    /\ <<w, TRUE>> \in members[i].entries
                    /\ trie_contains(members[j], w)) => found[w]

C15_Witness ==
    /\ mpc # "contains"
    /\ Len(members) = 2
    /\ <<WordHello, TRUE>> \in members[1].entries
    /\ trie_contains(members[2], WordHello)
    /\ found[WordHello]

\* the segments of the token: split on the splitters, those of length <= 3
\* dropped
Segments == filter_parts(split(token))

\* the segment is in the multi-index after lowercasing
SegmentContained(part) == multi_contains(members, to_ascii_lowercase(part))

\* every sub-segment of the segment, split at its capital letters, is in the
\* multi-index after lowercasing
SubSegmentsContained(part) ==
    LET subs == split_by_capitalization(part) IN
    \A k \in 1..Len(subs) : multi_contains(members, to_ascii_lowercase(subs[k]))

\* C16 as stated: if handle_identifier returns none, every segment is all
\* digits or is itself in the multi-index after lowercasing.
C16_NoneMeansSegmentsContained ==
    (mpc = "done" /\ suspicious = None) =>
        \A k \in 1..Len(Segments) :
            all_numeric(Segments[k]) \/ SegmentContained(Segments[k])

\* C16 as amended: if handle_identifier returns none, every segment is all
\* digits, or is in the multi-index after lowercasing, or all its camelCase
\* sub-segments are.
C16_NoneMeansSegmentsOrSubSegmentsContained ==
    (mpc = "done" /\ suspicious = None) =>
        \A k \in 1..Len(Segments) :
            \/ all_numeric(Segments[k])
            \/ SegmentContained(Segments[k])
            \/ SubSegmentsContained(Segments[k])

C16_Witness ==
    /\ mpc = "done"
    /\ suspicious = None
    /\ token = TokenHelloWorld
    /\ ~SegmentContained(TokenHelloWorld)

\* the segment fails: it is not in the multi-index, not all digits, and one
\* of its sub-segments is not in the multi-index
SegmentFails(part) ==
    ~SegmentContained(part) /\ ~all_numeric(part) /\ ~SubSegmentsContained(part)

FailingSegments == {k \in 1..Len(Segments) : SegmentFails(Segments[k])}

FirstFailingSegment ==
    Segments[CHOOSE k \in FailingSegments : \A j \in FailingSegments : k <= j]

\* the first sub-segment of the segment that is not in the multi-index
FirstFailingSubSegment(part) ==
    LET subs == split_by_capitalization(part)
        ks == {k \in 1..Len(subs) :
                  ~multi_contains(members, to_ascii_lowercase(subs[k]))}
    IN subs[CHOOSE k \in ks : \A j \in ks : k <= j]

\* {hello, world, http}, as the members of the model hold it
MembersHelloWorldHttp ==
    <<trie_from(<<Allow(WordHello), Allow(WordHttp)>>),
      trie_from(<<Disallow(WordHello), Allow(WordWorld)>>)>>

\* C17 as stated: the segments are examined left to right and the first
\* failure is reported; the word reported is the failing sub-segment, not
\* the whole segment: helloWorld gives none and helloWrld gives Wrld.
C17_ReportsFailingSubSegment ==
    mpc = "done" =>
        /\ suspicious =
               IF FailingSegments = {} THEN None
               ELSE Some(FirstFailingSubSegment(FirstFailingSegment))
        /\ (members = MembersHelloWorldHttp /\ token = TokenHelloWorld) =>
               suspicious = None
        /\ (members = MembersHelloWorldHttp /\ token = TokenHelloWrld) =>
               suspicious = Some(<<"W", "r", "l", "d">>)

\* C17 as amended: the segments are examined left to right and the first
\* failure is reported; the word reported is the whole failing segment:
\* helloWorld gives none and helloWrld gives helloWrld.
C17_ReportsFailingSegment ==
    mpc = "done" =>
        /\ suspicious =
               IF FailingSegments = {} THEN None ELSE Some(FirstFailingSegment)
        /\ (members = MembersHelloWorldHttp /\ token = TokenHelloWorld) =>
               suspicious = None
        /\ (members = MembersHelloWorldHttp /\ token = TokenHelloWrld) =>
               suspicious = Some(TokenHelloWrld)

C17_Witness ==
    /\ mpc = "done"
    /\ members = MembersHelloWorldHttp
    /\ token = TokenHelloWrld
    /\ suspicious = Some(TokenHelloWrld)

(***************************************************************************)
(* Claims about the typos of a node.                                       *)
(***************************************************************************)
\* C24: every typo emitted for a named leaf node has line = start row + 1,
\* column = start column + 1, and length equal to the length of the
\* suspicious word it reports.
C24_TypoPositionAndLength ==
    \A k \in 1..Len(typos) :
        /\ typos[k].line = leaf.row + 1
        /\ typos[k].column = leaf.column + 1
        /\ typos[k].length = Len(typos[k].word)

====
